---------------------------- MODULE Spec2Model ----------------------------
(***************************************************************************)
(* A model of the ParticleSystem engine of webs.js (src/webs.js): the      *)
(* particle store and its pool, the spatial grid, the Verlet integrator,   *)
(* the connection builder, the LOD controller and the frame loop.          *)
(*                                                                         *)
(* Numbers.  The program computes in IEEE doubles.  The model computes on  *)
(* the integer lattice: every coordinate, velocity and force is an integer *)
(* number of lattice units, Math.floor of a quotient is floor division,    *)
(* Math.sqrt is the integer square root, and the three non-finite doubles  *)
(* the code can produce (NaN, +Infinity, -Infinity) and null are encoded   *)
(* as four integers far outside the finite range, with the arithmetic and  *)
(* the comparisons of JavaScript defined on them below.                    *)
(***************************************************************************)
EXTENDS Integers, Sequences, FiniteSets, TLC

\* ------------------------------------------------------------------ bounds
\* Live particles a behaviour may hold at once.
MaxParticles == 2
\* Particle objects alive at once (live, pooled, or still referenced by a
\* grid bucket).
MaxObjects == 2
\* Largest per-step displacement a physics step may produce on one axis.
MaxSpeed == 2
\* Frame callbacks delivered in one behaviour.
MaxFrames == 1
\* Frame callbacks delivered in the specification of the frame loop
MaxLoopFrames == 4

\* Live particles at once in the specifications that follow single particles
\* through the integrator and the grid.
MaxTracked == 1

\* Particles initParticles creates in the specification of the connection
\* cap.
MaxRendered == 3

\* Frame callbacks delivered to the loop that is followed step by step.
MaxDrainFrames == 2

\* ------------------------------------------------ JavaScript number values
Null == -2000000001
NaN == -2000000002
PosInf == 2000000000
NegInf == -2000000000

IsFinite(a) == a \notin {Null, NaN, PosInf, NegInf}

\* a + b
Plus(a, b) ==
    IF a = NaN \/ b = NaN THEN NaN
    ELSE IF a = PosInf THEN (IF b = NegInf THEN NaN ELSE PosInf)
    ELSE IF a = NegInf THEN (IF b = PosInf THEN NaN ELSE NegInf)
    ELSE IF b \in {PosInf, NegInf} THEN b
    ELSE a + b

\* -a
Neg(a) ==
    IF a = NaN THEN NaN
    ELSE IF a = PosInf THEN NegInf
    ELSE IF a = NegInf THEN PosInf
    ELSE 0 - a

\* a - b
Minus(a, b) == Plus(a, Neg(b))

Sign(a) == IF a = PosInf THEN 1 ELSE IF a = NegInf THEN -1
           ELSE IF a > 0 THEN 1 ELSE IF a < 0 THEN -1 ELSE 0

\* a * b
Times(a, b) ==
    IF a = NaN \/ b = NaN THEN NaN
    ELSE IF IsFinite(a) /\ IsFinite(b) THEN a * b
    ELSE IF Sign(a) * Sign(b) = 0 THEN NaN
    ELSE IF Sign(a) * Sign(b) > 0 THEN PosInf ELSE NegInf

\* a >= b, a <= b, a < b, a > b: false as soon as one side is NaN
Ge(a, b) ==
    IF a = NaN \/ b = NaN THEN FALSE
    ELSE IF a = PosInf \/ b = NegInf THEN TRUE
    ELSE IF a = NegInf \/ b = PosInf THEN FALSE
    ELSE a >= b
Le(a, b) == Ge(b, a)
Lt(a, b) == a # NaN /\ b # NaN /\ ~Ge(a, b)
Gt(a, b) == Lt(b, a)

\* a !== b
StrictNeq(a, b) == a = NaN \/ b = NaN \/ a # b

\* !a  (for a number or null)
Falsy(a) == a \in {Null, NaN, 0}

\* Math.abs(a)
Abs(a) == IF a = NaN THEN NaN
          ELSE IF a \in {PosInf, NegInf} THEN PosInf
          ELSE IF a < 0 THEN 0 - a ELSE a

\* Math.floor(a / b), b finite
FloorDiv(a, b) ==
    IF a = NaN THEN NaN
    ELSE IF b = 0 THEN (IF Sign(a) = 0 THEN NaN
                        ELSE IF Sign(a) > 0 THEN PosInf ELSE NegInf)
    ELSE IF a = PosInf THEN (IF b > 0 THEN PosInf ELSE NegInf)
    ELSE IF a = NegInf THEN (IF b > 0 THEN NegInf ELSE PosInf)
    ELSE IF b > 0 THEN a \div b
    ELSE (0 - a) \div (0 - b)

\* a % m, m finite and positive: the remainder takes the sign of a
JsMod(a, m) ==
    IF ~IsFinite(a) THEN NaN
    ELSE IF a >= 0 THEN a % m
    ELSE 0 - ((0 - a) % m)

\* a / m for a finite a that m divides, and the non-finite cases
ExactDiv(a, m) ==
    IF a = NaN THEN NaN
    ELSE IF ~IsFinite(a) THEN a
    ELSE IF a >= 0 THEN a \div m
    ELSE 0 - ((0 - a) \div m)

\* Math.sqrt on the lattice: the largest r with r * r <= n
RECURSIVE Sqrt(_)
Sqrt(n) ==
    IF n < 1 THEN 0
    ELSE LET r == 2 * Sqrt(n \div 4)
         IN  IF (r + 1) * (r + 1) <= n THEN r + 1 ELSE r

\* (a / b) rounded toward zero, b > 0
TruncDiv(a, b) == IF a >= 0 THEN a \div b ELSE 0 - ((0 - a) \div b)

Max(a, b) == IF a >= b THEN a ELSE b
Min(a, b) == IF a <= b THEN a ELSE b


\* ------------------------------------------------------------------ state
VARIABLES
    opts,          \* this.opts
    width, height, \* this.width, this.height (CSS pixels of the canvas)
    particles,     \* this.particles: the live list, a sequence of objects
    particlePool,  \* this.particlePool: the free list
    grid,          \* this.grid: a Map from cell key to a list of objects
    heap,          \* the fields of every particle object still referenced
    mouse,         \* this.mouse
    lodMode,       \* this.lodMode
    running,       \* this.running
    animationId,   \* this.animationId (Null when none)
    rafQueue,      \* frame callbacks requested of the host and not yet run
    lastTime, accumulator, frameCount, lastFPSCheck, currentFPS,
    wasRunningBeforeHidden, \* this.wasRunningBeforeHidden
    hidden,        \* document.hidden
    ranAtLoss,     \* whether the engine ran when visibility was last lost
    listeners,     \* the host events the instance's handlers are attached to
    now,           \* the host clock (performance.now), in ticks
    frames,        \* frame callbacks delivered so far
    lastCall       \* the last API call: its name, arguments and result

storeVars == <<particles, particlePool, grid, heap>>
engineVars == <<lodMode, running, animationId, rafQueue, lastTime,
                accumulator, frameCount, lastFPSCheck, currentFPS,
                wasRunningBeforeHidden>>
hostVars == <<hidden, ranAtLoss, listeners, now, frames>>
loopVars == <<engineVars, hostVars>>
vars == <<opts, width, height, storeVars, mouse, loopVars, lastCall>>

\* The store as one value, for the operators that thread it through calls.
Store == [particles |-> particles, particlePool |-> particlePool,
          grid |-> grid, heap |-> heap]

\* ---------------------------------------------------------------- options
KeyBase == 10000
OffScreen == -9999
TargetFPS == 60
\* Time is counted in ticks of half a base timestep: 1000 ms are
\* 2 * TargetFPS ticks, and 1000 / targetFPS ms are BaseTimestep ticks.
TicksPerSecond == 2 * TargetFPS
BaseTimestep == TicksPerSecond \div TargetFPS
FpsWindow == TicksPerSecond

\* The constructor's defaults.  Lengths are in lattice units; speed,
\* opacityStep, connectionHysteresis, lodConnectionReduction and damping are
\* in hundredths (1.0, 0.2, 0.1, 0.5, 0.99 in the code).
DefaultOpts ==
    [ particleCount |-> 300,
      spawnVelocity |-> 1,
      speed |-> 100,
      maxConnectionDistance |-> 100,
      fadeStartDistance |-> 60,
      opacityStep |-> 20,
      connectionHysteresis |-> 10,
      enableConnections |-> TRUE,
      enableSpatialPartitioning |-> TRUE,
      gridSize |-> 20,
      enableObjectPooling |-> TRUE,
      enableAdaptiveLOD |-> TRUE,
      maxConnectionsPerParticle |-> 10,
      performanceThreshold |-> 40,
      lodConnectionReduction |-> 50,
      enableMouseRepel |-> FALSE,
      mouseRepelRadius |-> 100,
      mouseRepelStrength |-> 1,
      enableAdvancedPhysics |-> FALSE,
      damping |-> 99,
      gravity |-> [x |-> 0, y |-> 50] ]

\* { ...o, ...p }: the keys of p override those of o
Merge(o, p) ==
    [k \in (DOMAIN o) \cup (DOMAIN p) |-> IF k \in DOMAIN p THEN p[k] ELSE o[k]]

\* ----------------------------------------------------------- spatial grid
\* A getGridKey that adds the two cell coordinates without packing them.
getGridKeyUnpacked(o, x, y) ==
    IF ~o.enableSpatialPartitioning THEN Null
    ELSE Plus(FloorDiv(x, o.gridSize), FloorDiv(y, o.gridSize))

getGridKey(o, x, y) ==
    IF ~o.enableSpatialPartitioning THEN Null
    ELSE LET gridX == FloorDiv(x, o.gridSize)
             gridY == FloorDiv(y, o.gridSize)
         IN  Plus(Times(gridX, KeyBase), gridY)

\* cell.indexOf(id), 1-based; 0 when absent
IndexOf(cell, id) ==
    IF \E i \in 1..Len(cell) : cell[i] = id
    THEN CHOOSE i \in 1..Len(cell) :
            cell[i] = id /\ \A j \in 1..(i - 1) : cell[j] # id
    ELSE 0

\* cell.splice(i, 1)
Splice(cell, i) == SubSeq(cell, 1, i - 1) \o SubSeq(cell, i + 1, Len(cell))

MapSet(m, k, v) == [x \in (DOMAIN m) \cup {k} |-> IF x = k THEN v ELSE m[x]]
MapDelete(m, k) == [x \in (DOMAIN m) \ {k} |-> m[x]]
EmptyMap == [x \in {} |-> <<>>]

addToGrid(o, s, id) ==
    IF ~o.enableSpatialPartitioning THEN s
    ELSE LET key == getGridKey(o, s.heap[id].x, s.heap[id].y)
             cell == IF key \in DOMAIN s.grid THEN s.grid[key] ELSE <<>>
         IN  [s EXCEPT !.grid = MapSet(s.grid, key, Append(cell, id)),
                       !.heap[id].gridKey = key]

removeFromGrid(o, s, id) ==
    LET key == s.heap[id].gridKey IN
    IF ~o.enableSpatialPartitioning \/ Falsy(key) THEN s
    ELSE IF key \notin DOMAIN s.grid THEN s
    ELSE LET cell == s.grid[key]
             index == IndexOf(cell, id)
         IN  IF index = 0 THEN s
             ELSE IF Len(cell) = 1
                  THEN [s EXCEPT !.grid = MapDelete(s.grid, key)]
                  ELSE [s EXCEPT !.grid[key] = Splice(cell, index)]

\* The nine keys getNearbyParticles probes, in its order.
surroundingKeys(gridX, gridY) ==
    [i \in 1..9 |->
        LET dx == ((i - 1) \div 3) - 1
            dy == ((i - 1) % 3) - 1
        IN  Plus(Times(Plus(gridX, dx), KeyBase), Plus(gridY, dy))]

RECURSIVE ConcatCells(_, _, _)
ConcatCells(g, keys, i) ==
    IF i > Len(keys) THEN <<>>
    ELSE (IF keys[i] \in DOMAIN g THEN g[keys[i]] ELSE <<>>)
         \o ConcatCells(g, keys, i + 1)

getNearbyParticles(o, s, id) ==
    IF ~o.enableSpatialPartitioning THEN s.particles
    ELSE LET key == getGridKey(o, s.heap[id].x, s.heap[id].y) IN
         IF Falsy(key) THEN s.particles
         ELSE LET gridY == JsMod(key, KeyBase)
                  gridX == ExactDiv(Minus(key, gridY), KeyBase)
              IN  ConcatCells(s.grid, surroundingKeys(gridX, gridY), 1)

RECURSIVE AddAllToGrid(_, _, _)
AddAllToGrid(o, s, i) ==
    IF i > Len(s.particles) THEN s
    ELSE AddAllToGrid(o, addToGrid(o, s, s.particles[i]), i + 1)

\* A rebuildGrid that takes the rebuild for a release of the pool.
rebuildGridClearingPool(o, s) ==
    AddAllToGrid(o, [s EXCEPT !.grid = EmptyMap, !.particlePool = <<>>], 1)

rebuildGrid(o, s) == AddAllToGrid(o, [s EXCEPT !.grid = EmptyMap], 1)

\* --------------------------------------------------------- particle store
\* The values (Math.random() - 0.5) * 2 * v takes on the lattice: [-v, v).
Jitter(v) == IF v <= 0 THEN {0} ELSE (0 - v)..(v - 1)

\* The values Math.random() * extent takes on the lattice: [0, extent).
RandomIn(extent) == IF extent <= 0 THEN {0} ELSE 0..(extent - 1)

\* An object of the heap not referenced by the live list, the pool or a grid
\* bucket can never be reached again: it is dropped.
Referenced(s) ==
    {s.particles[i] : i \in 1..Len(s.particles)}
    \cup {s.particlePool[i] : i \in 1..Len(s.particlePool)}
    \cup UNION {{s.grid[k][i] : i \in 1..Len(s.grid[k])} : k \in DOMAIN s.grid}

Collect(s) == [s EXCEPT !.heap = [id \in Referenced(s) |-> s.heap[id]]]

\* A new object's identity.
FreshId(s) == CHOOSE id \in 1..(Cardinality(DOMAIN s.heap) + 1) :
                 /\ id \notin DOMAIN s.heap
                 /\ \A j \in 1..(id - 1) : j \in DOMAIN s.heap

\* A getPooledParticle that forgets to clear the force accumulators.
ResetFieldsKeepingForces(p, x, y, jx, jy) ==
    [p EXCEPT !.x = x, !.y = y, !.pastX = x + jx, !.pastY = y + jy,
              !.vx = 0, !.vy = 0, !.gridKey = Null]

\* The fields getPooledParticle gives a recycled object.
ResetFields(p, x, y, jx, jy) ==
    [p EXCEPT !.x = x, !.y = y, !.pastX = x + jx, !.pastY = y + jy,
              !.vx = 0, !.vy = 0, !.fx = 0, !.fy = 0, !.gridKey = Null]

\* The object literal getPooledParticle allocates.
NewFields(x, y, jx, jy) ==
    [x |-> x, y |-> y, gridKey |-> Null, pastX |-> x + jx, pastY |-> y + jy,
     vx |-> 0, vy |-> 0, fx |-> 0, fy |-> 0]

\* A getPooledParticle that hands out the last entry of the pool and leaves
\* it in the pool.
getPooledParticleKeeping(o, s, x, y, jx, jy) ==
    IF o.enableObjectPooling /\ Len(s.particlePool) > 0
    THEN LET id == s.particlePool[Len(s.particlePool)]
             s1 == [s EXCEPT !.heap[id] = ResetFields(@, x, y, jx, jy)]
         IN  [s |-> addToGrid(o, s1, id), ret |-> id, reused |-> TRUE]
    ELSE LET id == FreshId(s)
             s1 == [s EXCEPT
                      !.heap = MapSet(@, id, NewFields(x, y, jx, jy))]
         IN  [s |-> addToGrid(o, s1, id), ret |-> id, reused |-> FALSE]

\* A getPooledParticle that takes the oldest entry of the pool.
getPooledParticleOldest(o, s, x, y, jx, jy) ==
    IF o.enableObjectPooling /\ Len(s.particlePool) > 0
    THEN LET id == s.particlePool[1]
             s1 == [s EXCEPT
                      !.particlePool = Tail(@),
                      !.heap[id] = ResetFields(@, x, y, jx, jy)]
         IN  [s |-> addToGrid(o, s1, id), ret |-> id, reused |-> TRUE]
    ELSE LET id == FreshId(s)
             s1 == [s EXCEPT
                      !.heap = MapSet(@, id, NewFields(x, y, jx, jy))]
         IN  [s |-> addToGrid(o, s1, id), ret |-> id, reused |-> FALSE]

\* getPooledParticle(x, y) with the two random draws jx, jy:
\* the store afterwards, the object returned, and whether it was recycled.
getPooledParticle(o, s, x, y, jx, jy) ==
    IF o.enableObjectPooling /\ Len(s.particlePool) > 0
    THEN LET id == s.particlePool[Len(s.particlePool)]
             s1 == [s EXCEPT
                      !.particlePool = SubSeq(@, 1, Len(@) - 1),
                      !.heap[id] = ResetFields(@, x, y, jx, jy)]
         IN  [s |-> addToGrid(o, s1, id), ret |-> id, reused |-> TRUE]
    ELSE LET id == FreshId(s)
             s1 == [s EXCEPT
                      !.heap = MapSet(@, id, NewFields(x, y, jx, jy))]
         IN  [s |-> addToGrid(o, s1, id), ret |-> id, reused |-> FALSE]

\* A returnParticleToPool that unregisters the particle and drops it.
returnParticleToPoolDropping(o, s, id) ==
    IF o.enableObjectPooling THEN removeFromGrid(o, s, id) ELSE s

returnParticleToPool(o, s, id) ==
    IF o.enableObjectPooling
    THEN LET s1 == removeFromGrid(o, s, id)
         IN  [s1 EXCEPT !.particlePool = Append(@, id)]
    ELSE s

createParticle(o, s, x, y, jx, jy) == getPooledParticle(o, s, x, y, jx, jy)

addParticle(o, s, x, y, jx, jy) ==
    LET r == createParticle(o, s, x, y, jx, jy)
    IN  [r EXCEPT !.s.particles = Append(@, r.ret)]

\* A removeParticle that, finding no live particle, takes one from the pool.
removeParticleFromPool(o, s) ==
    IF Len(s.particles) > 0
    THEN LET id == s.particles[Len(s.particles)]
             s1 == [s EXCEPT !.particles = SubSeq(@, 1, Len(@) - 1)]
         IN  [s |-> returnParticleToPool(o, s1, id), ret |-> id]
    ELSE IF Len(s.particlePool) > 0
    THEN [s |-> [s EXCEPT !.particlePool = SubSeq(@, 1, Len(@) - 1)],
          ret |-> s.particlePool[Len(s.particlePool)]]
    ELSE [s |-> s, ret |-> Null]

\* removeParticle(): the store afterwards and the object returned (Null: none)
removeParticle(o, s) ==
    IF Len(s.particles) > 0
    THEN LET id == s.particles[Len(s.particles)]
             s1 == [s EXCEPT !.particles = SubSeq(@, 1, Len(@) - 1)]
         IN  [s |-> returnParticleToPool(o, s1, id), ret |-> id]
    ELSE [s |-> s, ret |-> Null]

\* Math.max(0, Math.round(count)) in place of Math.floor
targetCountRounded(count2) == Max(0, FloorDiv(count2 + 1, 2))

\* Math.max(0, Math.floor(count)) for count = count2 / 2
targetCount(count2) == Max(0, FloorDiv(count2, 2))

\* The two loops of setParticleCount.  rnd is the sequence of random draws
\* [x, y, jx, jy] the first loop consumes, one per particle added.
\* The first loop run for k iterations from the draw rnd[i] on: each adds a
\* particle.  The iterations are split in halves, and the store is looked at
\* before each half, to keep the nesting of the evaluation logarithmic in k.
RECURSIVE GrowBy(_, _, _, _, _)
GrowBy(o, s, rnd, i, k) ==
    IF k <= 0 \/ Len(s.particles) < 0 THEN s
    ELSE IF k = 1
    THEN addParticle(o, s, rnd[i].x, rnd[i].y, rnd[i].jx, rnd[i].jy).s
    ELSE GrowBy(o, GrowBy(o, s, rnd, i, k \div 2), rnd, i + k \div 2,
                k - k \div 2)

GrowTo(o, s, target, rnd, i) ==
    GrowBy(o, s, rnd, i, target - Len(s.particles))

RECURSIVE ShrinkTo(_, _, _)
ShrinkTo(o, s, target) ==
    IF Len(s.particles) > target
    THEN ShrinkTo(o, removeParticle(o, s).s, target)
    ELSE s

setParticleCount(o, s, count2, rnd) ==
    LET target == targetCount(count2)
    IN  ShrinkTo(o, GrowTo(o, s, target, rnd, 1), target)

\* The count initParticles asks setParticleCount for when the options give
\* none, or a falsy one.
FallbackParticleCount == 2000

\* initParticles(canvas, options) once the constructor has merged the
\* options into o: setParticleCount(options.particleCount || 2000) on the
\* empty store.  rnd holds the random draws of the particles added.
initParticles(o, options, rnd) ==
    LET count == IF "particleCount" \in DOMAIN options
                    /\ ~Falsy(options.particleCount)
                 THEN options.particleCount
                 ELSE FallbackParticleCount
    IN  setParticleCount(o,
                         [particles |-> <<>>, particlePool |-> <<>>,
                          grid |-> EmptyMap, heap |-> EmptyMap],
                         2 * count, rnd)

\* ------------------------------------------------------------- integrator
\* gravity * dt * dt for dt = deltaTime / 1000 s, deltaTime in ticks
GravityStep(g, deltaTime) ==
    TruncDiv(g * deltaTime * deltaTime, TicksPerSecond * TicksPerSecond)

\* v * damping, damping in hundredths
Damped(v, damping) == IF v = NaN THEN NaN ELSE TruncDiv(v * damping, 100)

\* One axis of the edge bounce of updateParticle: [pos, past] afterwards.
EdgeBounce(pos, past, extent) ==
    IF Ge(pos, extent)
    THEN LET v == Minus(pos, past) IN [pos |-> extent, past |-> Plus(extent, v)]
    ELSE IF Le(pos, 0)
    THEN LET v == Minus(pos, past) IN [pos |-> 0, past |-> Plus(0, v)]
    ELSE [pos |-> pos, past |-> past]

\* The position updateParticle advances one axis to, before the edge bounce.
FullAdvance(o, cur, past, f, g, deltaTime) ==
    IF o.enableAdvancedPhysics
    THEN Plus(Minus(Times(2, cur), past), Plus(GravityStep(g, deltaTime), f))
    ELSE Plus(Plus(cur, Minus(cur, past)), f)

\* The cell bookkeeping both update policies end with.
regrid(o, s, id, oldGridKey) ==
    IF o.enableSpatialPartitioning
    THEN LET newGridKey == getGridKey(o, s.heap[id].x, s.heap[id].y) IN
         IF StrictNeq(newGridKey, oldGridKey)
         THEN addToGrid(o, removeFromGrid(o, s, id), id)
         ELSE s
    ELSE s

updateParticle(o, w, h, s, id, deltaTime) ==
    LET p == s.heap[id]
        oldGridKey == p.gridKey
        vx0 == Minus(p.x, p.pastX)
        vy0 == Minus(p.y, p.pastY)
        vx == IF o.enableAdvancedPhysics THEN Damped(vx0, o.damping) ELSE vx0
        vy == IF o.enableAdvancedPhysics THEN Damped(vy0, o.damping) ELSE vy0
        newX == FullAdvance(o, p.x, p.pastX, p.fx, o.gravity.x, deltaTime)
        newY == FullAdvance(o, p.y, p.pastY, p.fy, o.gravity.y, deltaTime)
        bx == EdgeBounce(newX, p.x, w)
        by == EdgeBounce(newY, p.y, h)
        s1 == [s EXCEPT !.heap[id] =
                 [p EXCEPT !.vx = vx, !.vy = vy,
                           !.x = bx.pos, !.pastX = bx.past,
                           !.y = by.pos, !.pastY = by.past]]
    IN  regrid(o, s1, id, oldGridKey)

\* One axis of the boundary logic of applyMinimalParticleUpdate: [pos, v].
MinimalBounce(pos, v, extent) ==
    IF Ge(pos, extent) THEN [pos |-> extent, v |-> Neg(Abs(v))]
    ELSE IF Le(pos, 0) THEN [pos |-> 0, v |-> Abs(v)]
    ELSE [pos |-> pos, v |-> v]

applyMinimalParticleUpdate(o, w, h, s, id) ==
    LET p == s.heap[id]
        oldGridKey == p.gridKey
        vx == Plus(p.vx, p.fx)
        vy == Plus(p.vy, p.fy)
        x1 == Plus(p.x, vx)
        y1 == Plus(p.y, vy)
        bx == MinimalBounce(x1, vx, w)
        by == MinimalBounce(y1, vy, h)
        s1 == [s EXCEPT !.heap[id] =
                 [p EXCEPT !.x = bx.pos, !.vx = bx.v, !.pastX = Minus(x1, vx),
                           !.y = by.pos, !.vy = by.v, !.pastY = Minus(y1, vy),
                           !.fx = 0, !.fy = 0]]
    IN  regrid(o, s1, id, oldGridKey)

\* The force applyMouseRepel adds to a particle at offset (dx, dy) from the
\* pointer: zero outside the radius, NaN (0 * Infinity) at distance 0.
RepelForce(o, dx, dy) ==
    LET distanceSquared == Plus(Times(dx, dx), Times(dy, dy))
        radius == o.mouseRepelRadius
    IN  IF Lt(distanceSquared, radius * radius)
        THEN IF distanceSquared = 0
             THEN [x |-> NaN, y |-> NaN]
             ELSE LET distance == Sqrt(distanceSquared)
                      scale == (radius - distance) * o.mouseRepelStrength
                  IN  [x |-> TruncDiv(dx * scale, distance * radius),
                       y |-> TruncDiv(dy * scale, distance * radius)]
        ELSE [x |-> 0, y |-> 0]

applyMouseRepel(o, s, m) ==
    IF ~o.enableMouseRepel THEN s
    ELSE [s EXCEPT !.heap =
            [id \in DOMAIN s.heap |->
               IF \E i \in 1..Len(s.particles) : s.particles[i] = id
               THEN LET p == s.heap[id]
                        f == RepelForce(o, Minus(p.x, m.x), Minus(p.y, m.y))
                    IN  [p EXCEPT !.fx = f.x, !.fy = f.y]
               ELSE s.heap[id]]]

\* An update that gives the full update to the particles at even indices.
FullUpdateAtEven(o, lod, i) == ~(lod /\ o.enableAdaptiveLOD) \/ (i - 1) % 2 = 0

\* Whether update gives particles[i] (1-based) the full update.
FullUpdateAt(o, lod, i) == ~(lod /\ o.enableAdaptiveLOD) \/ (i - 1) % 2 = 1

RECURSIVE UpdateFrom(_, _, _, _, _, _, _)
UpdateFrom(o, w, h, s, lod, deltaTime, i) ==
    IF i > Len(s.particles) THEN s
    ELSE UpdateFrom(o, w, h,
            IF FullUpdateAt(o, lod, i)
            THEN updateParticle(o, w, h, s, s.particles[i], deltaTime)
            ELSE applyMinimalParticleUpdate(o, w, h, s, s.particles[i]),
            lod, deltaTime, i + 1)

\* An update that loses the last particle of the list.
updateDroppingLast(o, w, h, s, m, lod, deltaTime) ==
    LET s1 == applyMouseRepel(o, UpdateFrom(o, w, h, s, lod, deltaTime, 1), m)
    IN  [s1 EXCEPT !.particles = SubSeq(@, 1, Len(@) - 1)]

update(o, w, h, s, m, lod, deltaTime) ==
    applyMouseRepel(o, UpdateFrom(o, w, h, s, lod, deltaTime, 1), m)

\* ----------------------------------------------------- connection builder
RECURSIVE Gcd(_, _)
Gcd(a, b) == IF b = 0 THEN a ELSE Gcd(b, a % b)

\* The cutoff collectRenderData compares distances with, for n live
\* particles, as an exact fraction [num, den] in lowest terms:
\* maxConnectionDistance * Math.max(0.5, 1000 / Math.max(1, n)), times
\* lodConnectionReduction * (1 + connectionHysteresis) in LOD mode.
maxConnectionDistance(o, n, lod) ==
    LET m == Max(1, n)
        dnum == IF 2 * 1000 >= m THEN 1000 ELSE 1
        dden == IF 2 * 1000 >= m THEN m ELSE 2
        lnum == IF lod
                THEN o.lodConnectionReduction * (100 + o.connectionHysteresis)
                ELSE 1
        lden == IF lod THEN 100 * 100 ELSE 1
        g1 == Gcd(dnum * lnum, dden * lden)
        num1 == (dnum * lnum) \div g1
        den1 == (dden * lden) \div g1
        g2 == Gcd(Abs(o.maxConnectionDistance), den1)
    IN  [num |-> (o.maxConnectionDistance \div g2) * num1, den |-> den1 \div g2]

\* distance > maxConnectionDistance, for distance = Math.sqrt(d2)
BeyondCutoff(o, n, lod, d2) ==
    LET c == maxConnectionDistance(o, n, lod) IN
    IF d2 = NaN THEN FALSE
    ELSE c.num < 0 \/ d2 * c.den * c.den > c.num * c.num

\* calculateConnectionAlpha(Math.sqrt(d2)) > 0.01: whether the alpha of a
\* pair at that distance is above the visibility floor
AlphaAboveFloor(o, d2) ==
    LET max == o.maxConnectionDistance
        fade == o.fadeStartDistance
        \* opacityStep * (1 - (d - fade) / (max - fade)) > 0.01, in hundredths:
        \* opacityStep * max - (max - fade) > opacityStep * d
        a == o.opacityStep * max - (max - fade)
    IN  IF d2 = NaN THEN TRUE
        ELSE IF max < 0 \/ d2 > max * max THEN FALSE
        ELSE IF fade >= 0 /\ d2 <= fade * fade THEN o.opacityStep > 1
        ELSE a > 0 /\ a * a > o.opacityStep * o.opacityStep * d2

\* Whether the neighbour loop of collectRenderData accepts the pair p, q.
Qualifies(o, n, lod, p, q) ==
    LET dx == Minus(p.x, q.x)
        dy == Minus(p.y, q.y)
        d2 == Plus(Times(dx, dx), Times(dy, dy))
    IN  ~BeyondCutoff(o, n, lod, d2) /\ AlphaAboveFloor(o, d2)

\* The pairs [particle, otherParticle] collectRenderData connects when no
\* particle reaches maxConnectionsPerParticle.
ConnectedPairs(o, s, lod) ==
    IF ~o.enableConnections THEN {}
    ELSE UNION {
           LET id == s.particles[i]
               nearbyParticles == getNearbyParticles(o, s, id)
           IN  {<<id, nearbyParticles[j]>> :
                   j \in {k \in 1..Len(nearbyParticles) :
                            /\ nearbyParticles[k] # id
                            /\ Qualifies(o, Len(s.particles), lod, s.heap[id],
                                         s.heap[nearbyParticles[k]])}}
           : i \in 1..Len(s.particles)}

\* calculateConnectionAlpha(Math.sqrt(d2)), in hundredths, as the exact
\* number (a - b * Math.sqrt(d2)) / c with c > 0; a = NaN stands for NaN.
calculateConnectionAlpha(o, d2) ==
    LET max == o.maxConnectionDistance
        fade == o.fadeStartDistance
        fadeRange == max - fade
        alpha == [a |-> o.opacityStep * max, b |-> o.opacityStep,
                  c |-> fadeRange, d2 |-> d2]
        above == LET l == alpha.a - alpha.c
                 IN  IF alpha.b >= 0
                     THEN l > 0 /\ l * l > alpha.b * alpha.b * d2
                     ELSE l >= 0 \/ l * l < alpha.b * alpha.b * d2
    IN  IF d2 = NaN THEN [a |-> NaN, b |-> 0, c |-> 1, d2 |-> d2]
        ELSE IF max < 0 \/ d2 > max * max
        THEN [a |-> 0, b |-> 0, c |-> 1, d2 |-> d2]
        ELSE IF fade >= 0 /\ d2 <= fade * fade
        THEN [a |-> o.opacityStep, b |-> 0, c |-> 1, d2 |-> d2]
        ELSE IF above THEN alpha
        ELSE [a |-> 1, b |-> 0, c |-> 1, d2 |-> d2]

\* alpha > k / 100 and alpha < k / 100 for an alpha calculateConnectionAlpha
\* returns: both false for NaN
AlphaGt(alpha, k) ==
    LET l == alpha.a - k * alpha.c IN
    /\ alpha.a # NaN
    /\ IF alpha.b = 0 THEN l > 0
       ELSE IF alpha.b > 0 THEN l > 0 /\ l * l > alpha.b * alpha.b * alpha.d2
       ELSE l >= 0 \/ l * l < alpha.b * alpha.b * alpha.d2
AlphaLt(alpha, k) ==
    LET l == alpha.a - k * alpha.c IN
    /\ alpha.a # NaN
    /\ IF alpha.b = 0 THEN l < 0
       ELSE IF alpha.b > 0 THEN l <= 0 \/ l * l < alpha.b * alpha.b * alpha.d2
       ELSE l < 0 /\ l * l > alpha.b * alpha.b * alpha.d2

\* A neighbour loop that skips the neighbour at which the cap is reached
\* and goes on, in place of leaving the loop.
RECURSIVE SegmentsFromSkipping(_, _, _, _, _, _, _)
SegmentsFromSkipping(o, s, lod, id, nearbyParticles, j, connectionCount) ==
    IF j > Len(nearbyParticles) THEN <<>>
    ELSE LET other == nearbyParticles[j]
             p == s.heap[id]
             q == s.heap[other]
             dx == Minus(p.x, q.x)
             dy == Minus(p.y, q.y)
             d2 == Plus(Times(dx, dx), Times(dy, dy))
         IN  IF other = id
             THEN SegmentsFromSkipping(o, s, lod, id, nearbyParticles, j + 1,
                                       connectionCount)
             ELSE IF connectionCount >= o.maxConnectionsPerParticle
             THEN SegmentsFromSkipping(o, s, lod, id, nearbyParticles, j + 1,
                                       0)
             ELSE IF ~Qualifies(o, Len(s.particles), lod, p, q)
             THEN SegmentsFromSkipping(o, s, lod, id, nearbyParticles, j + 1,
                                       connectionCount)
             ELSE <<[from |-> id, to |-> other, x1 |-> p.x, y1 |-> p.y,
                     x2 |-> q.x, y2 |-> q.y,
                     alpha |-> calculateConnectionAlpha(o, d2)]>>
                  \o SegmentsFromSkipping(o, s, lod, id, nearbyParticles,
                                          j + 1, connectionCount + 1)

\* The segments the neighbour loop of collectRenderData emits for the
\* particle id, from nearbyParticles[j] on, connectionCount being emitted.
RECURSIVE SegmentsFrom(_, _, _, _, _, _, _)
SegmentsFrom(o, s, lod, id, nearbyParticles, j, connectionCount) ==
    IF j > Len(nearbyParticles) THEN <<>>
    ELSE LET other == nearbyParticles[j]
             p == s.heap[id]
             q == s.heap[other]
             dx == Minus(p.x, q.x)
             dy == Minus(p.y, q.y)
             d2 == Plus(Times(dx, dx), Times(dy, dy))
         IN  IF other = id
             THEN SegmentsFrom(o, s, lod, id, nearbyParticles, j + 1,
                               connectionCount)
             ELSE IF connectionCount >= o.maxConnectionsPerParticle THEN <<>>
             ELSE IF ~Qualifies(o, Len(s.particles), lod, p, q)
             THEN SegmentsFrom(o, s, lod, id, nearbyParticles, j + 1,
                               connectionCount)
             ELSE <<[from |-> id, to |-> other, x1 |-> p.x, y1 |-> p.y,
                     x2 |-> q.x, y2 |-> q.y,
                     alpha |-> calculateConnectionAlpha(o, d2)]>>
                  \o SegmentsFrom(o, s, lod, id, nearbyParticles, j + 1,
                                  connectionCount + 1)

RECURSIVE LinesFrom(_, _, _, _)
LinesFrom(o, s, lod, i) ==
    IF i > Len(s.particles) THEN <<>>
    ELSE SegmentsFrom(o, s, lod, s.particles[i],
                      getNearbyParticles(o, s, s.particles[i]), 1, 0)
         \o LinesFrom(o, s, lod, i + 1)

\* collectRenderData(): this.particlePositions and this.connectionLines as
\* it leaves them.  A segment also names the two objects it joins.
collectRenderData(o, s, lod) ==
    [particlePositions |->
        [i \in 1..Len(s.particles) |->
            [x |-> s.heap[s.particles[i]].x, y |-> s.heap[s.particles[i]].y]],
     connectionLines |->
        IF o.enableConnections THEN LinesFrom(o, s, lod, 1) ELSE <<>>]

\* render(): what one render pass draws.  The batch path draws what
\* collectRenderData collected; the fallback path (drawParticle,
\* drawConnections) draws the same particles and repeats the same tests.
render(o, s, lod) == collectRenderData(o, s, lod)

\* What a call that renders nothing has drawn.
NoDrawing == [particlePositions |-> <<>>, connectionLines |-> <<>>]

\* ------------------------------------------------------------- frame loop
\* (1000 / targetFPS) / speed, in ticks; Infinity for speed 0
effectiveTimestep(o) ==
    IF o.speed = 0 THEN PosInf ELSE TruncDiv(BaseTimestep * 100, o.speed)

\* An if in place of the while loop of animate: one step at most.
DrainOnce(o, w, h, s, m, lod, acc, steps) ==
    LET ts == effectiveTimestep(o) IN
    IF Ge(acc, ts)
    THEN [s |-> update(o, w, h, s, m, lod, ts), accumulator |-> acc - ts,
          steps |-> steps + 1]
    ELSE [s |-> s, accumulator |-> acc, steps |-> steps]

\* The while loop of animate: [s, accumulator, steps] once it has drained.
RECURSIVE Drain(_, _, _, _, _, _, _, _)
Drain(o, w, h, s, m, lod, acc, steps) ==
    LET ts == effectiveTimestep(o) IN
    IF Ge(acc, ts)
    THEN LET s1 == update(o, w, h, s, m, lod, ts) IN
         IF s1 = s1
         THEN Drain(o, w, h, s1, m, lod, acc - ts, steps + 1)
         ELSE [s |-> s1, accumulator |-> acc, steps |-> steps]
    ELSE [s |-> s, accumulator |-> acc, steps |-> steps]

\* An updatePerformanceTracking that enters LOD mode at the threshold too.
updatePerformanceTrackingInclusive(o, fc, fps, lastCheck, lod, currentTime) ==
    IF currentTime - lastCheck >= FpsWindow
    THEN [frameCount |-> 0, currentFPS |-> fc + 1, lastFPSCheck |-> currentTime,
          lodMode |-> IF o.enableAdaptiveLOD
                      THEN fc + 1 <= o.performanceThreshold
                      ELSE FALSE]
    ELSE [frameCount |-> fc + 1, currentFPS |-> fps, lastFPSCheck |-> lastCheck,
          lodMode |-> lod]

\* updatePerformanceTracking(currentTime): [frameCount, currentFPS,
\* lastFPSCheck, lodMode] afterwards
updatePerformanceTracking(o, fc, fps, lastCheck, lod, currentTime) ==
    IF currentTime - lastCheck >= FpsWindow
    THEN [frameCount |-> 0, currentFPS |-> fc + 1, lastFPSCheck |-> currentTime,
          lodMode |-> IF o.enableAdaptiveLOD
                      THEN fc + 1 < o.performanceThreshold
                      ELSE FALSE]
    ELSE [frameCount |-> fc + 1, currentFPS |-> fps, lastFPSCheck |-> lastCheck,
          lodMode |-> lod]

\* requestAnimationFrame's handle: one no pending request holds
FreshHandle(q) == CHOOSE n \in 1..(Cardinality(q) + 1) : n \notin q

\* --------------------------------------------------------------- the calls
\* What is remembered of the last call: its name, its arguments x and y, the
\* object it returned and whether that was a recycled one (with the fields
\* that object held stale values in while pooled), the lengths of the live
\* list and the pool when it began, the physics steps and the render passes
\* it ran, what its last render pass drew, and whether the loop was running
\* when it began.
NoCall == [op |-> "none", x |-> 0, y |-> 0, ret |-> Null, reused |-> FALSE,
           stale |-> {}, n0 |-> 0, p0 |-> 0, steps |-> 0, renders |-> 0,
           drawn |-> NoDrawing, ran |-> FALSE]

\* The fields of the object p that differ from a newly allocated particle's,
\* whatever its position.
StaleFields(p) ==
    {f \in {"vx", "vy", "fx", "fy"} : p[f] # 0}
    \cup (IF p.gridKey # Null THEN {"gridKey"} ELSE {})

Called(op) == [NoCall EXCEPT !.op = op]

\* Whether every per-step displacement and tracked velocity of s is within
\* MaxSpeed (or NaN), and the heap and every bucket within MaxObjects.
WithinBounds(s) ==
    /\ Cardinality(DOMAIN s.heap) <= MaxObjects
    /\ Len(s.particles) <= MaxParticles
    /\ \A k \in DOMAIN s.grid : Len(s.grid[k]) <= MaxObjects
    /\ \A id \in DOMAIN s.heap :
         LET p == s.heap[id] IN
         \A v \in {Minus(p.x, p.pastX), Minus(p.y, p.pastY), p.vx, p.vy} :
            v = NaN \/ Abs(v) <= MaxSpeed

SetStore(s) ==
    /\ WithinBounds(s)
    /\ particles' = s.particles
    /\ particlePool' = s.particlePool
    /\ grid' = s.grid
    /\ heap' = Collect(s).heap

AddParticle(x, y, jx, jy) ==
    LET r == addParticle(opts, Store, x, y, jx, jy) IN
    /\ Len(particles) < MaxParticles
    /\ SetStore(r.s)
    /\ lastCall' = [Called("addParticle") EXCEPT
                      !.x = x, !.y = y, !.ret = r.ret, !.reused = r.reused,
                      !.stale = IF r.reused THEN StaleFields(heap[r.ret])
                                ELSE {}]
    /\ UNCHANGED <<opts, width, height, mouse, loopVars>>

RemoveParticle ==
    LET r == removeParticle(opts, Store) IN
    /\ SetStore(r.s)
    /\ lastCall' = [Called("removeParticle") EXCEPT
                      !.ret = r.ret, !.p0 = Len(particlePool)]
    /\ UNCHANGED <<opts, width, height, mouse, loopVars>>

\* setParticleCount(count2 / 2), the first loop drawing rnd
SetParticleCount(count2, rnd) ==
    /\ targetCount(count2) <= MaxParticles
    /\ Len(rnd) = Max(0, targetCount(count2) - Len(particles))
    /\ SetStore(setParticleCount(opts, Store, count2, rnd))
    /\ lastCall' = [Called("setParticleCount") EXCEPT
                      !.x = count2, !.n0 = Len(particles),
                      !.p0 = Len(particlePool)]
    /\ UNCHANGED <<opts, width, height, mouse, loopVars>>

\* fitToParent() with the parent's rectangle w by h
FitToParent(w, h) ==
    /\ width' = w
    /\ height' = h
    /\ SetStore(IF Len(particles) > 0 THEN rebuildGrid(opts, Store) ELSE Store)
    /\ lastCall' = Called("resize")
    /\ UNCHANGED <<opts, mouse, loopVars>>

\* updateOptions(newOptions)
UpdateOptions(newOptions) ==
    LET o == Merge(opts, newOptions)
        rebuild == \/ ("gridSize" \in DOMAIN newOptions
                        /\ ~Falsy(newOptions.gridSize))
                   \/ "enableSpatialPartitioning" \in DOMAIN newOptions
    IN
    /\ opts' = o
    /\ SetStore(IF rebuild THEN rebuildGrid(o, Store) ELSE Store)
    /\ lastCall' = Called("updateOptions")
    /\ UNCHANGED <<width, height, mouse, loopVars>>

\* update(effectiveTimestep), one physics step
Update ==
    /\ effectiveTimestep(opts) # PosInf
    /\ SetStore(update(opts, width, height, Store, mouse, lodMode,
                       effectiveTimestep(opts)))
    /\ lastCall' = [Called("update") EXCEPT !.steps = 1]
    /\ UNCHANGED <<opts, width, height, mouse, loopVars>>

HandleMouseMove(mx, my) ==
    /\ mouse' = [x |-> mx, y |-> my]
    /\ lastCall' = Called("mousemove")
    /\ UNCHANGED <<opts, width, height, storeVars, loopVars>>

HandleMouseLeave ==
    /\ mouse' = [x |-> OffScreen, y |-> OffScreen]
    /\ lastCall' = Called("mouseleave")
    /\ UNCHANGED <<opts, width, height, storeVars, loopVars>>

\* The engine as one value: the store, the loop fields of the instance, the
\* host's pending frame requests, and what the call being run has done so
\* far (physics steps, render passes, the last pass's drawing).
Engine ==
    [s |-> Store, lodMode |-> lodMode, running |-> running,
     animationId |-> animationId, rafQueue |-> rafQueue,
     lastTime |-> lastTime, accumulator |-> accumulator,
     frameCount |-> frameCount, lastFPSCheck |-> lastFPSCheck,
     currentFPS |-> currentFPS,
     wasRunningBeforeHidden |-> wasRunningBeforeHidden,
     steps |-> 0, renders |-> 0, drawn |-> NoDrawing]

\* A variant of animate that renders before the physics steps.
animateRenderingFirst(o, w, h, m, e, currentTime) ==
    IF ~e.running THEN e
    ELSE
    LET deltaTime == currentTime - e.lastTime
        perf == updatePerformanceTracking(o, e.frameCount, e.currentFPS,
                                          e.lastFPSCheck, e.lodMode,
                                          currentTime)
        d == Drain(o, w, h, e.s, m, perf.lodMode,
                   e.accumulator + deltaTime, 0)
        handle == FreshHandle(e.rafQueue)
    IN  [e EXCEPT !.lastTime = currentTime,
                  !.frameCount = perf.frameCount,
                  !.currentFPS = perf.currentFPS,
                  !.lastFPSCheck = perf.lastFPSCheck,
                  !.lodMode = perf.lodMode,
                  !.accumulator = d.accumulator,
                  !.s = d.s,
                  !.steps = @ + d.steps,
                  !.renders = @ + 1,
                  !.drawn = render(o, e.s, perf.lodMode),
                  !.animationId = handle,
                  !.rafQueue = @ \cup {handle}]

\* animate(currentTime), the requests of e.rafQueue pending
animate(o, w, h, m, e, currentTime) ==
    IF ~e.running THEN e
    ELSE
    LET deltaTime == currentTime - e.lastTime
        perf == updatePerformanceTracking(o, e.frameCount, e.currentFPS,
                                          e.lastFPSCheck, e.lodMode,
                                          currentTime)
        d == Drain(o, w, h, e.s, m, perf.lodMode,
                   e.accumulator + deltaTime, 0)
        handle == FreshHandle(e.rafQueue)
    IN  [e EXCEPT !.lastTime = currentTime,
                  !.frameCount = perf.frameCount,
                  !.currentFPS = perf.currentFPS,
                  !.lastFPSCheck = perf.lastFPSCheck,
                  !.lodMode = perf.lodMode,
                  !.accumulator = d.accumulator,
                  !.s = d.s,
                  !.steps = @ + d.steps,
                  !.renders = @ + 1,
                  !.drawn = render(o, d.s, perf.lodMode),
                  !.animationId = handle,
                  !.rafQueue = @ \cup {handle}]

\* A start without the early return for a loop that is running.
startUnguarded(o, w, h, m, e, t) ==
    animate(o, w, h, m,
            [e EXCEPT !.running = TRUE, !.lastTime = t,
                      !.lastFPSCheck = t, !.frameCount = 0],
            t)

\* start(): lastTime = lastFPSCheck = performance.now(), frameCount = 0,
\* then animate(lastTime)
start(o, w, h, m, e, t) ==
    IF e.running THEN e
    ELSE animate(o, w, h, m,
                 [e EXCEPT !.running = TRUE, !.lastTime = t,
                           !.lastFPSCheck = t, !.frameCount = 0],
                 t)

\* A variant of stop that leaves the requested frame pending.
stopWithoutCancel(e) ==
    IF ~e.running THEN e
    ELSE [e EXCEPT !.running = FALSE]

\* A variant of stop without the early return, which notes on every call
\* whether the loop was running.
stopRemembering(e) ==
    [e EXCEPT !.wasRunningBeforeHidden = e.running,
              !.running = FALSE,
              !.rafQueue = IF Falsy(e.animationId) THEN @
                           ELSE @ \ {e.animationId},
              !.animationId = Null]

\* stop()
stop(e) ==
    IF ~e.running THEN e
    ELSE IF ~Falsy(e.animationId)
    THEN [e EXCEPT !.running = FALSE,
                   !.rafQueue = @ \ {e.animationId},
                   !.animationId = Null]
    ELSE [e EXCEPT !.running = FALSE]

\* A variant of handleVisibilityChange that starts the loop whenever the
\* page becomes visible.
handleVisibilityChangeResuming(o, w, h, m, e, isHidden, t) ==
    IF isHidden
    THEN IF e.running
         THEN stop([e EXCEPT !.wasRunningBeforeHidden = TRUE])
         ELSE e
    ELSE start(o, w, h, m, [e EXCEPT !.wasRunningBeforeHidden = FALSE], t)

\* handleVisibilityChange(), document.hidden being isHidden
handleVisibilityChange(o, w, h, m, e, isHidden, t) ==
    IF isHidden
    THEN IF e.running
         THEN stop([e EXCEPT !.wasRunningBeforeHidden = TRUE])
         ELSE e
    ELSE IF e.wasRunningBeforeHidden
         THEN start(o, w, h, m, [e EXCEPT !.wasRunningBeforeHidden = FALSE],
                    t)
         ELSE e

\* The instance takes the fields of e; the call is remembered under op.
SetEngine(e, op) ==
    /\ SetStore(e.s)
    /\ lodMode' = e.lodMode
    /\ running' = e.running
    /\ animationId' = e.animationId
    /\ rafQueue' = e.rafQueue
    /\ lastTime' = e.lastTime
    /\ accumulator' = e.accumulator
    /\ frameCount' = e.frameCount
    /\ lastFPSCheck' = e.lastFPSCheck
    /\ currentFPS' = e.currentFPS
    /\ wasRunningBeforeHidden' = e.wasRunningBeforeHidden
    /\ lastCall' = [Called(op) EXCEPT !.steps = e.steps,
                                      !.renders = e.renders,
                                      !.drawn = e.drawn,
                                      !.ran = running]

Start ==
    /\ SetEngine(start(opts, width, height, mouse, Engine, now), "start")
    /\ UNCHANGED <<opts, width, height, mouse, hostVars>>

Stop ==
    /\ SetEngine(stop(Engine), "stop")
    /\ UNCHANGED <<opts, width, height, mouse, hostVars>>

\* The host runs a requested frame callback, elapsed ticks after the last
\* reading of the clock.
Frame(handle, elapsed) ==
    /\ handle \in rafQueue
    /\ frames' = frames + 1
    /\ now' = now + elapsed
    /\ SetEngine(animate(opts, width, height, mouse,
                         [Engine EXCEPT !.rafQueue = @ \ {handle}],
                         now + elapsed),
                 "animate")
    /\ UNCHANGED <<opts, width, height, mouse, hidden, ranAtLoss, listeners>>

Animate(handle, elapsed) ==
    /\ frames < MaxFrames
    /\ Frame(handle, elapsed)

\* render(), called by the embedder between frames
Render ==
    /\ lastCall' = [Called("render") EXCEPT
                      !.renders = 1, !.drawn = render(opts, Store, lodMode),
                      !.ran = running]
    /\ UNCHANGED <<opts, width, height, storeVars, mouse, loopVars>>

\* destroy(): stop(), the resize and visibilitychange listeners removed,
\* particles, pool and grid emptied
destroy(e) ==
    [stop(e) EXCEPT !.s = [particles |-> <<>>, particlePool |-> <<>>,
                           grid |-> EmptyMap, heap |-> e.s.heap]]

Destroy ==
    /\ SetEngine(destroy(Engine), "destroy")
    /\ listeners' = listeners \ {"resize", "visibilitychange"}
    /\ UNCHANGED <<opts, width, height, mouse, hidden, ranAtLoss, now, frames>>

\* The page changes visibility and the host fires visibilitychange.
VisibilityChange ==
    /\ hidden' = ~hidden
    /\ ranAtLoss' = IF ~hidden THEN running ELSE ranAtLoss
    /\ SetEngine(handleVisibilityChange(opts, width, height, mouse, Engine,
                                        ~hidden, now),
                 "visibilitychange")
    /\ UNCHANGED <<opts, width, height, mouse, listeners, now, frames>>

\* ------------------------------------------------------ the specifications
\* The canvas: Extent lattice units wide, one less high.
Extent == 2

\* Options given to the constructor in every specification: lengths of the
\* size of the lattice, and a speed of 0.05, so that the 1000 ms between
\* two FPS samples hold three physics steps.
GivenOptions ==
    [gridSize |-> 1, speed |-> 5, maxConnectionDistance |-> 3,
     fadeStartDistance |-> 2, mouseRepelRadius |-> 2,
     mouseRepelStrength |-> 2]

\* The constructor's merge of the defaults with the options given.
BaseOptions == Merge(DefaultOpts, GivenOptions)

\* The state the constructor leaves, for the options o and a canvas w by h.
Constructed(o, w, h) ==
    /\ opts = o
    /\ width = w
    /\ height = h
    /\ particles = <<>>
    /\ particlePool = <<>>
    /\ grid = EmptyMap
    /\ heap = EmptyMap
    /\ mouse = [x |-> OffScreen, y |-> OffScreen]
    /\ lodMode = FALSE
    /\ running = FALSE
    /\ animationId = Null
    /\ rafQueue = {}
    /\ lastTime = 0
    /\ accumulator = 0
    /\ frameCount = 0
    /\ lastFPSCheck = 0
    /\ currentFPS = 60
    /\ wasRunningBeforeHidden = FALSE
    /\ hidden = FALSE
    /\ ranAtLoss = FALSE
    /\ listeners = {"resize", "visibilitychange", "mousemove", "mouseleave"}
    /\ now = 0
    /\ frames = 0
    /\ lastCall = NoCall

\* The random draws of the addParticle calls of setParticleCount(count2 / 2):
\* for each particle added a position in the canvas and a jitter, which the
\* draws considered keep horizontal.
EdgeDraws(count2) ==
    [1..Max(0, targetCount(count2) - Len(particles)) ->
        [x : RandomIn(width), y : RandomIn(height),
         jx : Jitter(opts.spawnVelocity), jy : {0}]]

\* The particle store: particles come and go along the top edge of the
\* canvas, with pooling and partitioning each on or off, while the frame
\* loop steps them in normal and LOD mode.
Init ==
    \E sp \in BOOLEAN, op \in BOOLEAN :
       Constructed(Merge(BaseOptions, [enableSpatialPartitioning |-> sp,
                                       enableObjectPooling |-> op]),
                   Extent, Extent - 1)

Next ==
    \/ \E x \in 0..Extent, jx \in Jitter(opts.spawnVelocity) :
          AddParticle(x, 0, jx, 0)
    \/ RemoveParticle
    \/ \E count2 \in {0 - 1, 0, 3, 2 * MaxParticles} :
         \E rnd \in EdgeDraws(count2) : SetParticleCount(count2, rnd)
    \/ Update
    \/ Start
    \/ \E handle \in rafQueue : Animate(handle, FpsWindow)

Spec == Init /\ [][Next]_vars

\* The integrator under a pointer: particles are added inside the canvas or
\* one unit to its left or right, with a horizontal jitter, and released,
\* the pointer moves along the top edge and leaves, and update steps the
\* particles with mouse repel enabled.
InitPhysics ==
    Constructed(Merge(BaseOptions, [enableMouseRepel |-> TRUE]),
                Extent, Extent - 1)

NextPhysics ==
    \/ \E x \in (0 - 1)..(Extent + 1), y \in 0..(Extent - 1),
          jx \in Jitter(opts.spawnVelocity) :
          Len(particles) < MaxTracked /\ AddParticle(x, y, jx, 0)
    \/ RemoveParticle
    \/ \E mx \in 1..(Extent - 1) : HandleMouseMove(mx, 0)
    \/ HandleMouseLeave
    \/ Update

SpecPhysics == InitPhysics /\ [][NextPhysics]_vars

\* The spatial grid under option changes: with partitioning enabled at
\* construction, particles are added and stepped along the top edge while
\* updateOptions changes gridSize (zero included) and the partitioning
\* toggle, and the canvas is resized.
InitGrid == Constructed(BaseOptions, Extent, Extent - 1)

NextGrid ==
    \/ \E x \in 0..Extent, jx \in Jitter(opts.spawnVelocity) :
          Len(particles) < MaxTracked /\ AddParticle(x, 0, jx, 0)
    \/ RemoveParticle
    \/ Update
    \/ \E w \in (Extent - 1)..Extent : FitToParent(w, Extent - 1)
    \/ \E g \in 0..Extent : UpdateOptions([gridSize |-> g])
    \/ \E sp \in BOOLEAN : UpdateOptions([enableSpatialPartitioning |-> sp])

SpecGrid == InitGrid /\ [][NextGrid]_vars

\* The frame loop: one particle is added and stepped by the loop, which is
\* started, stopped, hidden and shown in any order while the host delivers
\* frames half a sampling window or a whole one apart and adaptive LOD is
\* switched off and on.  Two frames a window meet the threshold, one does
\* not.
InitLoop ==
    Constructed(Merge(BaseOptions, [performanceThreshold |-> 2]),
                Extent, Extent - 1)

NextLoop ==
    \/ \E jx \in Jitter(opts.spawnVelocity) :
          Len(particles) < MaxTracked /\ AddParticle(1, 0, jx, 0)
    \/ Start
    \/ Stop
    \/ VisibilityChange
    \/ \E handle \in rafQueue, elapsed \in {FpsWindow \div 2, FpsWindow} :
          frames < MaxLoopFrames /\ Frame(handle, elapsed)
    \/ \E lod \in BOOLEAN : UpdateOptions([enableAdaptiveLOD |-> lod])

SpecLoop == InitLoop /\ [][NextLoop]_vars

\* The connection builder: for each configuration of opacityStep,
\* fadeStartDistance and maxConnectionDistance drawn at construction, two
\* particles without spawn velocity are placed along the top edge, pushed
\* by the pointer, stepped and rendered.
InitRender ==
    \E step \in {1, 20}, fade \in 1..Extent, max \in Extent..(Extent + 1) :
       Constructed(Merge(BaseOptions,
                         [opacityStep |-> step, fadeStartDistance |-> fade,
                          maxConnectionDistance |-> max, spawnVelocity |-> 0,
                          enableMouseRepel |-> TRUE]),
                   Extent, Extent - 1)

NextRender ==
    \/ \E x \in 0..Extent : AddParticle(x, 0, 0, 0)
    \/ \E mx \in 1..Extent : HandleMouseMove(mx, 0)
    \/ Update
    \/ Render

SpecRender == InitRender /\ [][NextRender]_vars

\* The host events and the lifecycle: one particle comes and goes along the
\* top edge while the host delivers pointer, visibility and resize events
\* to the handlers still attached, options change the grid size and the
\* partitioning toggle, and the instance is started and destroyed.
InitHost == Constructed(BaseOptions, Extent, Extent - 1)

NextHost ==
    \/ \E x \in 0..Extent, jx \in Jitter(opts.spawnVelocity) :
          Len(particles) < MaxTracked /\ AddParticle(x, 0, jx, 0)
    \/ RemoveParticle
    \/ \E w \in (Extent - 1)..Extent :
          "resize" \in listeners /\ FitToParent(w, Extent - 1)
    \/ \E g \in 1..Extent : UpdateOptions([gridSize |-> g])
    \/ \E sp \in BOOLEAN : UpdateOptions([enableSpatialPartitioning |-> sp])
    \/ "mousemove" \in listeners /\ HandleMouseMove(1, 0)
    \/ "mouseleave" \in listeners /\ HandleMouseLeave
    \/ "visibilitychange" \in listeners /\ VisibilityChange
    \/ Start
    \/ Destroy

SpecHost == InitHost /\ [][NextHost]_vars

\* Construction through initParticles: the options give no particleCount,
\* or one from 0 to MaxParticles; every particle created is given the same
\* random draw, the draw 0 where the fallback count applies.  The particles
\* of the instances of at most MaxParticles particles then come, go and step.
InitCreate ==
    \E options \in {GivenOptions}
                   \cup {Merge(GivenOptions, [particleCount |-> n]) :
                           n \in 0..MaxParticles},
       x \in RandomIn(Extent), jx \in Jitter(BaseOptions.spawnVelocity) :
       /\ \/ "particleCount" \in DOMAIN options /\ ~Falsy(options.particleCount)
          \/ x = 0 /\ jx = 0
       /\ LET o == Merge(DefaultOpts, options)
              rnd == [i \in 1..Max(FallbackParticleCount, MaxParticles)
                        |-> [x |-> x, y |-> 0, jx |-> jx, jy |-> 0]]
          IN  \E s \in {initParticles(o, options, rnd)} :
              /\ opts = o
              /\ width = Extent
              /\ height = Extent - 1
              /\ particles = s.particles
              /\ particlePool = s.particlePool
              /\ grid = s.grid
              /\ heap = s.heap
              /\ mouse = [x |-> OffScreen, y |-> OffScreen]
              /\ lodMode = FALSE
              /\ running = FALSE
              /\ animationId = Null
              /\ rafQueue = {}
              /\ lastTime = 0
              /\ accumulator = 0
              /\ frameCount = 0
              /\ lastFPSCheck = 0
              /\ currentFPS = 60
              /\ wasRunningBeforeHidden = FALSE
              /\ hidden = FALSE
              /\ ranAtLoss = FALSE
              /\ listeners = {"resize", "visibilitychange", "mousemove",
                              "mouseleave"}
              /\ now = 0
              /\ frames = 0
              /\ lastCall = Called("initParticles")

NextCreate ==
    \/ \E x \in 0..Extent, jx \in Jitter(opts.spawnVelocity) :
          AddParticle(x, 0, jx, 0)
    \/ Len(particles) <= MaxParticles /\ RemoveParticle
    \/ Len(particles) <= MaxParticles /\ Update

SpecCreate == InitCreate /\ [][NextCreate]_vars

\* The pointer leaving: mouse repel is enabled with a radius of the size of
\* the lattice or one of 30000, larger than the distance from the canvas to
\* the point handleMouseLeave parks the pointer at; particles are added
\* along the top edge and stepped while the pointer moves and leaves.
InitLeave ==
    \E radius \in {2, 30000} :
       Constructed(Merge(BaseOptions, [enableMouseRepel |-> TRUE,
                                       mouseRepelRadius |-> radius,
                                       mouseRepelStrength |-> 3]),
                   Extent, Extent - 1)

NextLeave ==
    \/ \E x \in 0..Extent, jx \in Jitter(opts.spawnVelocity) :
          Len(particles) < MaxTracked /\ AddParticle(x, 0, jx, 0)
    \/ RemoveParticle
    \/ \E mx \in 1..(Extent - 1) : HandleMouseMove(mx, 0)
    \/ HandleMouseLeave
    \/ Update

SpecLeave == InitLeave /\ [][NextLeave]_vars

\* The reach of connections: with a maxConnectionDistance of one lattice
\* unit, smaller than the canvas, and partitioning on or off, particles come
\* and go along the top edge, are stepped and rendered.
InitReach ==
    \E fade \in 0..1, sp \in BOOLEAN :
       Constructed(Merge(BaseOptions,
                         [maxConnectionDistance |-> 1,
                          fadeStartDistance |-> fade,
                          enableSpatialPartitioning |-> sp]),
                   Extent, Extent - 1)

NextReach ==
    \/ \E x \in 0..Extent, jx \in Jitter(opts.spawnVelocity) :
          AddParticle(x, 0, jx, 0)
    \/ RemoveParticle
    \/ Update
    \/ Render

SpecReach == InitReach /\ [][NextReach]_vars

\* The connection cap: initParticles creates one to MaxRendered particles
\* at positions drawn along the top edge, with a cap of one or two
\* connections per particle and partitioning on or off; the instance is
\* rendered, and the particles of the instances within MaxParticles come,
\* go and step.
InitCap ==
    \E n \in 1..MaxRendered, cap \in 1..2, sp \in BOOLEAN :
       \E xs \in [1..n -> RandomIn(Extent)] :
          LET options == Merge(GivenOptions,
                               [particleCount |-> n,
                                maxConnectionsPerParticle |-> cap,
                                enableSpatialPartitioning |-> sp])
              o == Merge(DefaultOpts, options)
              rnd == [i \in 1..n |-> [x |-> xs[i], y |-> 0, jx |-> 0, jy |-> 0]]
          IN  \E s \in {initParticles(o, options, rnd)} :
              /\ opts = o
              /\ width = Extent
              /\ height = Extent - 1
              /\ particles = s.particles
              /\ particlePool = s.particlePool
              /\ grid = s.grid
              /\ heap = s.heap
              /\ mouse = [x |-> OffScreen, y |-> OffScreen]
              /\ lodMode = FALSE
              /\ running = FALSE
              /\ animationId = Null
              /\ rafQueue = {}
              /\ lastTime = 0
              /\ accumulator = 0
              /\ frameCount = 0
              /\ lastFPSCheck = 0
              /\ currentFPS = 60
              /\ wasRunningBeforeHidden = FALSE
              /\ hidden = FALSE
              /\ ranAtLoss = FALSE
              /\ listeners = {"resize", "visibilitychange", "mousemove",
                              "mouseleave"}
              /\ now = 0
              /\ frames = 0
              /\ lastCall = Called("initParticles")

NextCap ==
    \/ \E x \in 0..Extent, jx \in Jitter(opts.spawnVelocity) :
          AddParticle(x, 0, jx, 0)
    \/ RemoveParticle
    \/ Update
    \/ Render

SpecCap == InitCap /\ [][NextCap]_vars

\* Cell keys on tall surfaces: the canvas is as high as the lattice, or
\* KeyBase - 1 or KeyBase units high, with a gridSize of 1 or 2; particles
\* without spawn velocity are added at the top, near the bottom and on the
\* bottom edge, released and stepped.
InitKey ==
    \E h \in {Extent - 1, KeyBase - 1, KeyBase}, g \in 1..2 :
       Constructed(Merge(BaseOptions, [gridSize |-> g, spawnVelocity |-> 0]),
                   Extent, h)

NextKey ==
    \/ \E x \in 0..Extent, y \in {0, height - 1, height} :
          AddParticle(x, y, 0, 0)
    \/ RemoveParticle
    \/ Update

SpecKey == InitKey /\ [][NextKey]_vars

\* Forces under option changes: mouse repel is enabled at construction and
\* switched off and on through updateOptions while one particle is added
\* along the top edge and stepped, and the pointer moves and leaves.
InitForce ==
    Constructed(Merge(BaseOptions, [enableMouseRepel |-> TRUE]),
                Extent, Extent - 1)

NextForce ==
    \/ \E x \in 0..Extent, jx \in Jitter(opts.spawnVelocity) :
          Len(particles) < MaxTracked /\ AddParticle(x, 0, jx, 0)
    \/ RemoveParticle
    \/ \E mx \in 1..(Extent - 1) : HandleMouseMove(mx, 0)
    \/ HandleMouseLeave
    \/ \E repel \in BOOLEAN : UpdateOptions([enableMouseRepel |-> repel])
    \/ Update

SpecForce == InitForce /\ [][NextForce]_vars

\* The frame callback step by step: every pass through the while loop of
\* animate is a step of its own, so that a callback that never leaves the
\* loop is a behaviour.  The position of the callback is kept in lastCall:
\* "animate.drain" while it is at the loop's test.
InDrain == lastCall.op = "animate.drain"

\* The magnitude from which a double absorbs the timestep: from there on
\* accumulator - effectiveTimestep is the accumulator again.
MaxAccumulator == 2 * FpsWindow

\* The speeds given to updateOptions: negative, zero, and two positive ones.
Speeds == {0 - 5, 0, 5, 10}

\* animate(currentTime) up to the loop: the early return when stopped, else
\* lastTime, the performance tracking and accumulator += deltaTime
animateEnter(o, e, currentTime) ==
    LET perf == updatePerformanceTracking(o, e.frameCount, e.currentFPS,
                                          e.lastFPSCheck, e.lodMode,
                                          currentTime)
    IN  [e EXCEPT !.lastTime = currentTime,
                  !.frameCount = perf.frameCount,
                  !.currentFPS = perf.currentFPS,
                  !.lastFPSCheck = perf.lastFPSCheck,
                  !.lodMode = perf.lodMode,
                  !.accumulator = @ + (currentTime - e.lastTime)]

\* One pass through the loop body: update(effectiveTimestep), then
\* accumulator -= effectiveTimestep
drainBody(o, w, h, m, e) ==
    LET ts == effectiveTimestep(o)
        acc == e.accumulator - ts
    IN  [e EXCEPT !.s = update(o, w, h, e.s, m, e.lodMode, ts),
                  !.accumulator = IF acc > MaxAccumulator THEN @ ELSE acc]

\* animate(currentTime) after the loop: render(), then the next frame is
\* requested
animateLeave(o, e) ==
    LET handle == FreshHandle(e.rafQueue)
    IN  [e EXCEPT !.renders = @ + 1,
                  !.drawn = render(o, e.s, e.lodMode),
                  !.animationId = handle,
                  !.rafQueue = @ \cup {handle}]

\* start() on a stopped loop, up to the loop of the animate it calls
StartEnter ==
    /\ ~InDrain
    /\ ~running
    /\ SetEngine(animateEnter(opts,
                              [Engine EXCEPT !.running = TRUE,
                                             !.lastTime = now,
                                             !.lastFPSCheck = now,
                                             !.frameCount = 0],
                              now),
                 "animate.drain")
    /\ UNCHANGED <<opts, width, height, mouse, hostVars>>

\* The host runs a requested frame callback of a running loop, up to the
\* loop.
FrameEnter(handle, elapsed) ==
    /\ ~InDrain
    /\ running
    /\ handle \in rafQueue
    /\ frames' = frames + 1
    /\ now' = now + elapsed
    /\ SetEngine(animateEnter(opts, [Engine EXCEPT !.rafQueue = @ \ {handle}],
                              now + elapsed),
                 "animate.drain")
    /\ UNCHANGED <<opts, width, height, mouse, hidden, ranAtLoss, listeners>>

\* The loop's test holds: one pass through its body.
DrainStep ==
    /\ InDrain
    /\ Ge(accumulator, effectiveTimestep(opts))
    /\ SetEngine(drainBody(opts, width, height, mouse, Engine),
                 "animate.drain")
    /\ UNCHANGED <<opts, width, height, mouse, hostVars>>

\* The loop's test fails: the callback renders, requests the next frame and
\* returns.
DrainExit ==
    /\ InDrain
    /\ ~Ge(accumulator, effectiveTimestep(opts))
    /\ SetEngine(animateLeave(opts, Engine), "animate")
    /\ UNCHANGED <<opts, width, height, mouse, hostVars>>

\* The loop under every speed: a particle is added, the loop is started and
\* stopped, the host delivers frames half a sampling window or a whole one
\* apart, and updateOptions sets the speed, all of them between callbacks.
InitDrain ==
    \E speed \in Speeds :
       Constructed(Merge(BaseOptions, [speed |-> speed]), Extent, Extent - 1)

NextDrain ==
    \/ \E jx \in Jitter(opts.spawnVelocity) :
          ~InDrain /\ Len(particles) < MaxTracked /\ AddParticle(1, 0, jx, 0)
    \/ StartEnter
    \/ \E handle \in rafQueue, elapsed \in {FpsWindow \div 2, FpsWindow} :
          frames < MaxDrainFrames /\ FrameEnter(handle, elapsed)
    \/ DrainStep
    \/ DrainExit
    \/ ~InDrain /\ Stop
    \/ \E speed \in Speeds : ~InDrain /\ UpdateOptions([speed |-> speed])

SpecDrain == InitDrain /\ [][NextDrain]_vars

\* ------------------------------------------------- spatial index properties
\* How many times the object id is registered in the grid, over all buckets.
RECURSIVE CountIn(_, _)
CountIn(cell, id) ==
    IF cell = <<>> THEN 0
    ELSE (IF Head(cell) = id THEN 1 ELSE 0) + CountIn(Tail(cell), id)

RECURSIVE Registrations(_, _, _)
Registrations(g, keys, id) ==
    IF keys = {} THEN 0
    ELSE LET k == CHOOSE k \in keys : TRUE
         IN  CountIn(g[k], id) + Registrations(g, keys \ {k}, id)

Unpartitioned(o) == Merge(o, [enableSpatialPartitioning |-> FALSE])

\* C1: partition correctness.  With spatial partitioning enabled, the pairs
\* the connection builder connects through the 3x3-cell neighbour query
\* (self excluded, within the max connection distance, no per-particle cap)
\* are the pairs the all-pairs computation connects.
PartitionCorrectness ==
    opts.enableSpatialPartitioning =>
        ConnectedPairs(opts, Store, lodMode)
            = ConnectedPairs(Unpartitioned(opts), Store, lodMode)

\* C2: with spatial partitioning enabled, every particle object is registered
\* in at most one grid bucket, at most once, the bucket of key 0 included.
AtMostOneRegistration ==
    opts.enableSpatialPartitioning =>
        \A id \in DOMAIN heap : Registrations(grid, DOMAIN grid, id) <= 1

\* C4: after removeParticle has released a particle, that particle is in no
\* grid bucket, with object pooling enabled or disabled; it is the last
\* entry of the pool if pooling is enabled and the pool is as it was if not.
ReleaseLeavesGrid ==
    (lastCall.op = "removeParticle" /\ lastCall.ret # Null) =>
        /\ Registrations(grid, DOMAIN grid, lastCall.ret) = 0
        /\ IF opts.enableObjectPooling
           THEN /\ Len(particlePool) = lastCall.p0 + 1
                /\ particlePool[Len(particlePool)] = lastCall.ret
           ELSE Len(particlePool) = lastCall.p0

\* ----------------------------------------------------- particle store claims
\* Math.max(0, Math.floor(count2 / 2)), written out
FlooredTarget(count2) == IF count2 < 0 THEN 0 ELSE count2 \div 2

ShrinkFillsPool ==
    (lastCall.op = "setParticleCount" /\ Len(particles) < lastCall.n0) =>
        Len(particlePool) =
            IF opts.enableObjectPooling
            THEN lastCall.p0 + (lastCall.n0 - Len(particles))
            ELSE lastCall.p0

\* C7 happens: with pooling enabled, a shrink from MaxParticles to none put
\* MaxParticles entries in an empty pool.
ShrinkFilledPool ==
    /\ lastCall.op = "setParticleCount"
    /\ opts.enableObjectPooling
    /\ lastCall.n0 = MaxParticles /\ lastCall.p0 = 0
    /\ Len(particles) = 0 /\ Len(particlePool) = MaxParticles

\* C8: the physics steps of an update call or of a frame callback leave the
\* live list and the pool holding the objects they held, in the same order.
StepKeepsPopulation ==
    [][lastCall'.op \in {"update", "animate"} =>
         particles' = particles /\ particlePool' = particlePool]_vars

\* C8 happens: a frame ran several steps in LOD mode over MaxParticles
\* particles, one of them stepped by the minimal update.
LodFrameStepped ==
    /\ lastCall.op = "animate" /\ lastCall.steps > 1
    /\ lodMode /\ opts.enableAdaptiveLOD
    /\ Len(particles) = MaxParticles

\* C5: a particle addParticle(x, y) takes from the pool has, on return, the
\* fields of a newly allocated one: the position asked for, zero forces and
\* velocity, a past position within spawnVelocity of the position on each
\* axis, and the grid key of (x, y), null with partitioning off.
ReuseLeaksNothing ==
    (lastCall.op = "addParticle" /\ lastCall.reused) =>
        LET p == heap[lastCall.ret] IN
        /\ p.x = lastCall.x /\ p.y = lastCall.y
        /\ p.fx = 0 /\ p.fy = 0 /\ p.vx = 0 /\ p.vy = 0
        /\ Abs(p.pastX - p.x) <= opts.spawnVelocity
        /\ Abs(p.pastY - p.y) <= opts.spawnVelocity
        /\ p.gridKey = getGridKey(opts, lastCall.x, lastCall.y)
        /\ p = [NewFields(p.x, p.y, p.pastX - p.x, p.pastY - p.y)
                  EXCEPT !.gridKey = p.gridKey]

\* C5 happens: the recycled object had been stepped and repelled before its
\* release, so that it lay in the pool with a tracked velocity, a force and
\* a grid key.
ReusedAfterForces ==
    /\ lastCall.op = "addParticle" /\ lastCall.reused
    /\ {"vx", "fx", "gridKey"} \subseteq lastCall.stale

\* ------------------------------------------------------------ grid-key claim
\* C3: with spatial partitioning enabled, every live particle's stored
\* gridKey is getGridKey of its position, and the particle is in the bucket
\* stored under that key.
GridKeysCurrent ==
    opts.enableSpatialPartitioning =>
        \A i \in 1..Len(particles) :
           LET p == heap[particles[i]] IN
           /\ ~StrictNeq(p.gridKey, getGridKey(opts, p.x, p.y))
           /\ p.gridKey \in DOMAIN grid
           /\ CountIn(grid[p.gridKey], particles[i]) >= 1

\* ---------------------------------------------------------- boundary claims
\* C9: after a call that ran a physics step, every live particle has
\* 0 <= x <= width and 0 <= y <= height.
PositionsWithinExtent ==
    (lastCall.op \in {"update", "animate"} /\ lastCall.steps >= 1) =>
        \A i \in 1..Len(particles) :
           LET p == heap[particles[i]] IN
           /\ Ge(p.x, 0) /\ Le(p.x, width)
           /\ Ge(p.y, 0) /\ Le(p.y, height)

\* What C10 asks of one axis of a full update that advances a coordinate
\* from cur to new: at or beyond extent, or at or below 0, the coordinate
\* ends on the boundary, the past position at boundary + v for v = new - cur,
\* and the implied velocity -v does not point out of the canvas.
Reflected(cur, new, pos, past, extent) ==
    LET v == Minus(new, cur) IN
    /\ Ge(new, extent) =>
          pos = extent /\ past = Plus(extent, v) /\ Minus(pos, past) = Neg(v)
          /\ Le(Minus(pos, past), 0)
    /\ (~Ge(new, extent) /\ Le(new, 0)) =>
          pos = 0 /\ past = v /\ Minus(pos, past) = Neg(v)
          /\ Ge(Minus(pos, past), 0)

\* C10: full-mode boundary reflection, on both axes of every particle an
\* update call gives the full update.
BoundaryReflection ==
    [][lastCall'.op = "update" =>
         \A i \in 1..Len(particles) :
            FullUpdateAt(opts, lodMode, i) =>
               LET p == heap[particles[i]]
                   q == heap'[particles[i]]
                   dt == effectiveTimestep(opts)
               IN  /\ Reflected(p.x, FullAdvance(opts, p.x, p.pastX, p.fx,
                                                 opts.gravity.x, dt),
                                q.x, q.pastX, width)
                   /\ Reflected(p.y, FullAdvance(opts, p.y, p.pastY, p.fy,
                                                 opts.gravity.y, dt),
                                q.y, q.pastY, height)]_vars

\* --------------------------------------------------------- integrator claim
\* What C11 asks of one axis of a step that advanced a coordinate from cur
\* by the velocity used, leaving it at pos with past position past: pos - past
\* (the velocity the next full step recomputes) is used, or -used when the
\* advanced coordinate touched or crossed a boundary.
SelfConsistent(cur, used, pos, past, extent) ==
    LET implied == Minus(pos, past)
        advanced == Plus(cur, used)
    IN  \/ implied = used
        \/ /\ Ge(advanced, extent) \/ Le(advanced, 0)
           /\ implied = Neg(used)

\* The velocity update uses to advance one axis of particles[i]: the
\* displacement of the full update, vx + fx of the minimal one.
UsedVelocity(o, lod, i, cur, past, v, f, g) ==
    IF FullUpdateAt(o, lod, i)
    THEN Minus(FullAdvance(o, cur, past, f, g, effectiveTimestep(o)), cur)
    ELSE Plus(v, f)

\* Whether the step from the store s to the store t is self-consistent on
\* both axes of every particle.
StepConsistent(o, w, h, s, t, lod) ==
    \A i \in 1..Len(s.particles) :
       LET p == s.heap[s.particles[i]]
           q == t.heap[s.particles[i]]
       IN  /\ SelfConsistent(p.x, UsedVelocity(o, lod, i, p.x, p.pastX, p.vx,
                                               p.fx, o.gravity.x),
                             q.x, q.pastX, w)
           /\ SelfConsistent(p.y, UsedVelocity(o, lod, i, p.y, p.pastY, p.vy,
                                               p.fy, o.gravity.y),
                             q.y, q.pastY, h)

\* Whether each of the n physics steps a call runs from the store s on is
\* self-consistent.
RECURSIVE StepsConsistent(_, _, _, _, _, _, _)
StepsConsistent(o, w, h, s, m, lod, n) ==
    \/ n = 0
    \/ LET t == update(o, w, h, s, m, lod, effectiveTimestep(o)) IN
       /\ StepConsistent(o, w, h, s, t, lod)
       /\ StepsConsistent(o, w, h, t, m, lod, n - 1)

\* C11: Verlet self-consistency.  After every physics step of every call,
\* on both axes of every particle, current - past equals the velocity the
\* step advanced the particle by, negated at most on an axis that hit a
\* boundary.
VerletSelfConsistency ==
    [][StepsConsistent(opts, width, height, Store, mouse, lodMode',
                       lastCall'.steps)]_vars

\* -------------------------------------------------------- empty-store claim
\* C20: removeParticle() with no live particle returns null and leaves the
\* live list, the pool and the grid as they were.
RemoveFromEmptyIsNoOp ==
    [][(lastCall'.op = "removeParticle" /\ Len(particles) = 0) =>
         /\ lastCall'.ret = Null
         /\ particles' = particles
         /\ particlePool' = particlePool
         /\ grid' = grid]_vars

\* C20 happens: removeParticle() was called on a store with no live
\* particle but with a pooled one, and returned null.
RemovedFromEmpty ==
    /\ lastCall.op = "removeParticle"
    /\ lastCall.ret = Null
    /\ Len(particles) = 0
    /\ Len(particlePool) > 0

\* -------------------------------------------------------- frame loop claims
\* C12: with adaptive LOD enabled, a frame callback that comes a sampling
\* window or more after the last sample makes the frames counted (this one
\* included) the FPS estimate, resets the counter, and sets lodMode to
\* whether the estimate is below performanceThreshold.
LodTransition ==
    [][(lastCall'.op = "animate" /\ running /\ opts.enableAdaptiveLOD
        /\ now' - lastFPSCheck >= FpsWindow) =>
         /\ currentFPS' = frameCount + 1
         /\ frameCount' = 0
         /\ lastFPSCheck' = now'
         /\ lodMode' = (currentFPS' < opts.performanceThreshold)]_vars

\* C12 happens: a sample at the threshold has just returned the engine from
\* LOD mode to normal mode.
LodReturnedToNormal ==
    /\ lastCall.op = "animate"
    /\ opts.enableAdaptiveLOD
    /\ frameCount = 0 /\ lastFPSCheck = now
    /\ currentFPS >= opts.performanceThreshold
    /\ ~lodMode
    /\ now >= 3 * FpsWindow

\* C13: whenever adaptive LOD is disabled, lodMode is false.
LodOffMeansNormal == ~opts.enableAdaptiveLOD => ~lodMode

\* C14: stop() on an instance that is not running changes nothing of the
\* instance and leaves the host's frame requests as they are.
StopIsIdempotent ==
    [][(lastCall'.op = "stop" /\ ~running) =>
         /\ ~running'
         /\ UNCHANGED <<opts, width, height, storeVars, mouse, engineVars>>]_vars

\* C14 happens: stop() was called on a stopped instance that had run.
StoppedTwice ==
    /\ lastCall.op = "stop" /\ ~lastCall.ran
    /\ ~running
    /\ frames >= 1

\* C15: while the instance is not running no frame request is pending, and
\* a call of the loop that leaves it stopped has run no physics step and no
\* render pass.
NoFrameWhileStopped ==
    /\ [](~running => rafQueue = {})
    /\ [][(lastCall'.op \in {"stop", "animate", "visibilitychange"}
           /\ ~running') =>
            lastCall'.steps = 0 /\ lastCall'.renders = 0]_vars

\* C15 happens: a running loop that had delivered frames was stopped by
\* stop() and, another time, by a loss of visibility.
StoppedAfterFrames ==
    /\ lastCall.op \in {"stop", "visibilitychange"} /\ lastCall.ran
    /\ ~running
    /\ frames >= 1
    /\ ranAtLoss

\* C16: a loss of visibility while running stops the loop and records that
\* it ran; a regain leaves the loop running if it ran at the last loss, and
\* otherwise starts nothing.
VisibilityContract ==
    [][lastCall'.op = "visibilitychange" =>
         IF hidden'
         THEN /\ running => ~running' /\ wasRunningBeforeHidden'
              /\ ~running => UNCHANGED engineVars
         ELSE /\ ranAtLoss => running'
              /\ ~ranAtLoss => UNCHANGED engineVars]_vars

\* C16 happens: the page became visible again and the loop, stopped by the
\* loss of visibility, was started by the handler.
ResumedOnRegain ==
    /\ lastCall.op = "visibilitychange"
    /\ ~hidden /\ ranAtLoss
    /\ ~lastCall.ran /\ running
    /\ lastCall.renders = 1

\* C17: a frame callback entered with accumulator a, delta the time since
\* the last frame, runs floor((a + delta) / T) physics steps for the
\* effective timestep T and leaves the accumulator at a + delta less those
\* steps, at least 0 and less than T.
FixedTimestepAccumulator ==
    [][(lastCall'.op = "animate" /\ running /\ opts.speed > 0) =>
         LET T == effectiveTimestep(opts)
             total == accumulator + (now' - lastTime)
         IN  /\ lastCall'.steps = total \div T
             /\ accumulator' = total - lastCall'.steps * T
             /\ 0 <= accumulator' /\ accumulator' < T]_vars

\* C17 happens: a frame one and a half timesteps after the last ran two
\* steps, one of them owed to the remainder the frame before had left.
DrainedWithCarry ==
    /\ lastCall.op = "animate"
    /\ lastCall.steps = 2
    /\ accumulator = 0
    /\ 2 * (FpsWindow \div 2) < 4 * effectiveTimestep(opts)

\* C18: a call that runs the frame callback on a running loop renders once,
\* and what it draws is the store as its physics steps left it.
OneRenderAfterSteps ==
    (lastCall.op = "animate"
     \/ (lastCall.op \in {"start", "visibilitychange"} /\ running
         /\ ~lastCall.ran)) =>
        /\ lastCall.renders = 1
        /\ lastCall.drawn = render(opts, Store, lodMode)

\* C18 happens: a frame ran several steps that moved a particle, then
\* rendered.
RenderedAfterManySteps ==
    /\ lastCall.op = "animate"
    /\ lastCall.steps >= 2
    /\ lastCall.renders = 1
    /\ \E i \in 1..Len(particles) :
          heap[particles[i]].x # heap[particles[i]].pastX

\* ------------------------------------------------------- segment alpha claim
\* C19: every segment a render pass emits has an alpha of at least 0, at
\* most opacityStep, and above the visibility floor 0.01.
SegmentAlphaInRange ==
    \A k \in 1..Len(lastCall.drawn.connectionLines) :
       LET alpha == lastCall.drawn.connectionLines[k].alpha IN
       /\ alpha.a # NaN
       /\ ~AlphaLt(alpha, 0)
       /\ ~AlphaGt(alpha, opts.opacityStep)
       /\ AlphaGt(alpha, 1)

\* ------------------------------------------------------- option-range claim
\* C21: whatever gridSize the options hold, zero and negative sizes
\* included, getGridKey returns a finite key for every position of the
\* canvas, and the stored key of every live particle is finite.
GridKeyFinite ==
    opts.enableSpatialPartitioning =>
        /\ \A x \in 0..width, y \in 0..height :
              IsFinite(getGridKey(opts, x, y))
        /\ \A i \in 1..Len(particles) :
              IsFinite(heap[particles[i]].gridKey)

\* ---------------------------------------------------------- rebuild claims
\* Whether the grid g is what a rebuild leaves for the options o and the
\* store s: with partitioning enabled every live particle is registered
\* once, in the bucket of the cell of its position, and no other object is
\* registered; with partitioning disabled g is empty.
Rebuilt(o, s, g) ==
    IF o.enableSpatialPartitioning
    THEN /\ \A i \in 1..Len(s.particles) :
              LET id == s.particles[i]
                  key == getGridKey(o, s.heap[id].x, s.heap[id].y)
              IN  /\ key \in DOMAIN g
                  /\ CountIn(g[key], id) = 1
                  /\ Registrations(g, DOMAIN g, id) = 1
         /\ \A id \in DOMAIN s.heap :
              (\A i \in 1..Len(s.particles) : s.particles[i] # id) =>
                 Registrations(g, DOMAIN g, id) = 0
    ELSE g = EmptyMap

\* C22: an updateOptions call that changes gridSize or the partitioning
\* toggle leaves the grid rebuilt for the merged options.
UpdateOptionsRebuilds ==
    [][(lastCall'.op = "updateOptions"
        /\ \/ opts'.gridSize # opts.gridSize
           \/ opts'.enableSpatialPartitioning # opts.enableSpatialPartitioning)
       => Rebuilt(opts', Store, grid')]_vars

\* ------------------------------------------------------- host event claims
\* The calls the host's events and the option updates make.
HandlerCalls ==
    {"mousemove", "mouseleave", "visibilitychange", "resize", "updateOptions"}

\* C23 as stated: the input-event handlers and updateOptions leave the live
\* list, the pool and the grid as they were.
HandlersLeaveStructures ==
    [][lastCall'.op \in HandlerCalls =>
         /\ particles' = particles
         /\ particlePool' = particlePool
         /\ grid' = grid]_vars

\* C23 as amended: the handlers and updateOptions leave the live list, the
\* pool and every particle's position, past position, velocity and force as
\* they were; the pointer handlers, and the visibility handler when the
\* frame it may run steps nothing, leave the grid too; resize and
\* updateOptions change the grid only by rebuilding it from the live list.
HandlersOnlyRebuild ==
    [][lastCall'.op \in HandlerCalls =>
         /\ particles' = particles
         /\ particlePool' = particlePool
         /\ lastCall'.steps = 0 =>
               \A id \in (DOMAIN heap) \cap (DOMAIN heap') :
                  [heap'[id] EXCEPT !.gridKey = Null]
                     = [heap[id] EXCEPT !.gridKey = Null]
         /\ (lastCall'.op \in {"mousemove", "mouseleave"}
             \/ (lastCall'.op = "visibilitychange" /\ lastCall'.steps = 0)) =>
               grid' = grid /\ heap' = heap
         /\ lastCall'.op \in {"resize", "updateOptions"} =>
               \/ grid' = grid
               \/ Rebuilt(opts',
                          [particles |-> particles',
                           particlePool |-> particlePool',
                           grid |-> grid', heap |-> heap'],
                          grid')]_vars

\* C23 happens: with a particle live at x = 1, updateOptions has made the
\* cells as wide as the canvas and the particle is registered in cell 0 of
\* the new grid.
OptionsRebuiltGrid ==
    /\ lastCall.op = "updateOptions"
    /\ opts.enableSpatialPartitioning /\ opts.gridSize = Extent
    /\ Len(particles) = 1
    /\ heap[particles[1]].x = 1
    /\ heap[particles[1]].gridKey = 0
    /\ 0 \in DOMAIN grid

\* C24: after destroy() the instance is not running, no frame request is
\* pending, the live list, the pool and the grid are empty, and none of the
\* listeners attached at construction is still attached.
DestroyReleasesAll ==
    lastCall.op = "destroy" =>
        /\ ~running /\ rafQueue = {}
        /\ particles = <<>> /\ particlePool = <<>> /\ grid = EmptyMap
        /\ listeners = {}

\* ------------------------------------------------------- construction claim
\* C25: initParticles(canvas, options) returns an engine with as many live
\* particles as the effective particleCount option: the one given, zero
\* included, or the default.
CreatedWithParticleCount ==
    lastCall.op = "initParticles" => Len(particles) = opts.particleCount

\* ------------------------------------------------------ pointer-leave claim
\* Whether the particle lies on the canvas.
InBounds(p) == Ge(p.x, 0) /\ Le(p.x, width) /\ Ge(p.y, 0) /\ Le(p.y, height)

\* C26: with mouse repel enabled, the update that follows a pointer-leave
\* leaves a zero force on every particle that was on the canvas when the
\* force was computed, whatever finite mouseRepelRadius is configured.
NoForceAfterLeave ==
    [][(lastCall.op = "mouseleave" /\ lastCall'.op = "update"
        /\ opts.enableMouseRepel)
       => \A i \in 1..Len(particles') :
             LET p == heap'[particles'[i]]
             IN  InBounds(p) => p.fx = 0 /\ p.fy = 0]_vars

\* -------------------------------------------- incremental maintenance claim
\* The bucket of the key in the grid g, empty where g has no such bucket.
BucketOf(g, key) == IF key \in DOMAIN g THEN g[key] ELSE <<>>

\* Whether the grids g1 and g2 hold the same members in the same buckets,
\* whatever their order within a bucket.
SameBuckets(g1, g2, ids) ==
    \A key \in (DOMAIN g1) \cup (DOMAIN g2) :
       \A id \in ids :
          CountIn(BucketOf(g1, key), id) = CountIn(BucketOf(g2, key), id)

\* C27: with partitioning enabled, after any sequence of addParticle,
\* removeParticle, setParticleCount and physics steps the grid holds the
\* buckets and members rebuildGrid would produce from the live particles.
IncrementalMatchesRebuild ==
    opts.enableSpatialPartitioning =>
       SameBuckets(grid, rebuildGrid(opts, Store).grid, DOMAIN heap)

\* ------------------------------------------------------ implied-velocity claim
\* The displacement the positions of one axis imply for the next step:
\* current - past plus the external force, and the acceleration of gravity
\* over the step in advanced mode.
ImpliedVelocity(o, cur, past, f, g) ==
    IF o.enableAdvancedPhysics
    THEN Plus(Minus(cur, past), Plus(GravityStep(g, effectiveTimestep(o)), f))
    ELSE Plus(Minus(cur, past), f)

\* Whether the step that starts from the store s advances both axes of every
\* particle by the velocity its positions imply.
StepUsesImplied(o, s, lod) ==
    \A i \in 1..Len(s.particles) :
       LET p == s.heap[s.particles[i]]
       IN  /\ UsedVelocity(o, lod, i, p.x, p.pastX, p.vx, p.fx, o.gravity.x)
                = ImpliedVelocity(o, p.x, p.pastX, p.fx, o.gravity.x)
           /\ UsedVelocity(o, lod, i, p.y, p.pastY, p.vy, p.fy, o.gravity.y)
                = ImpliedVelocity(o, p.y, p.pastY, p.fy, o.gravity.y)

\* Whether each of the n physics steps a call runs from the store s on
\* advances the particles by their implied velocity.
RECURSIVE StepsUseImplied(_, _, _, _, _, _, _)
StepsUseImplied(o, w, h, s, m, lod, n) ==
    \/ n = 0
    \/ /\ StepUsesImplied(o, s, lod)
       /\ StepsUseImplied(o, w, h,
                          update(o, w, h, s, m, lod, effectiveTimestep(o)),
                          m, lod, n - 1)

\* C28: at the start of every physics step of every call, under the full and
\* under the minimal update, the velocity a particle is advanced by is
\* current - past (plus the external force): no stored velocity is used.
VelocityFromPositions ==
    [][StepsUseImplied(opts, width, height, Store, mouse, lodMode',
                       lastCall'.steps)]_vars

\* ------------------------------------------------------------ LOD split claim
\* C29 as stated: while LOD-degraded, a physics step gives the full update
\* to exactly half of the live particles and the minimal update to the other
\* half, for every count n >= 1, and the particles given the minimal update
\* are a strict subset of the population.
LodUpdatesExactlyHalf ==
    (lastCall.op \in {"update", "animate"} /\ lastCall.steps >= 1
     /\ lodMode /\ opts.enableAdaptiveLOD /\ Len(particles) >= 1) =>
       LET n == Len(particles)
           full == {i \in 1..n : FullUpdateAt(opts, lodMode, i)}
           minimal == (1..n) \ full
       IN  /\ 2 * Cardinality(full) = n
           /\ 2 * Cardinality(minimal) = n
           /\ minimal # 1..n

\* Position, past position and tracked velocity of a particle.
Kinematics(p) == <<p.x, p.y, p.pastX, p.pastY, p.vx, p.vy>>

\* C29: while LOD-degraded, an update call leaves each particle at an odd
\* index of the live list (counted from 0) as updateParticle leaves it and
\* each particle at an even index as applyMinimalParticleUpdate leaves it:
\* floor(n / 2) particles get the full update and the other ceil(n / 2) the
\* minimal one, a strict subset of the population when n >= 2.
LodSplitsByIndex ==
    [][(lastCall'.op = "update" /\ lodMode /\ opts.enableAdaptiveLOD) =>
         \A i \in 1..Len(particles) :
            LET id == particles[i]
                dt == effectiveTimestep(opts)
                full == updateParticle(opts, width, height, Store, id, dt)
                minimal == applyMinimalParticleUpdate(opts, width, height,
                                                      Store, id)
            IN  Kinematics(heap'[id])
                  = Kinematics(IF (i - 1) % 2 = 1 THEN full.heap[id]
                               ELSE minimal.heap[id])]_vars

\* Witness of C29: an update call stepped two particles in LOD mode.
LodSteppedTwo ==
    /\ lastCall.op = "update"
    /\ lodMode /\ opts.enableAdaptiveLOD
    /\ Len(particles) = 2

\* ------------------------------------------------------------ pool reuse claim
\* C30: with pooling enabled and a non-empty pool, addParticle returns the
\* object released last (the last entry of the pool), the pool loses that
\* entry and no record is allocated; with an empty pool or pooling disabled
\* the object returned is a new record and the pool is left as it was.
PoolReuseIsLifo ==
    [][lastCall'.op = "addParticle" =>
         IF opts.enableObjectPooling /\ Len(particlePool) > 0
         THEN /\ lastCall'.reused
              /\ lastCall'.ret = particlePool[Len(particlePool)]
              /\ particlePool' = SubSeq(particlePool, 1, Len(particlePool) - 1)
              /\ DOMAIN heap' \subseteq DOMAIN heap
              /\ particles' = Append(particles, lastCall'.ret)
         ELSE /\ ~lastCall'.reused
              /\ lastCall'.ret \notin DOMAIN heap
              /\ lastCall'.ret \in DOMAIN heap'
              /\ particlePool' = particlePool
              /\ particles' = Append(particles, lastCall'.ret)]_vars

\* Witness of C30: addParticle recycled an object of a pool of two.
ReusedFromPoolOfTwo ==
    /\ lastCall.op = "addParticle"
    /\ lastCall.reused
    /\ Len(particlePool) = 1
    /\ lastCall.ret # particlePool[1]

\* --------------------------------------------------------- scaled-range claim
\* Whether two alphas computed for the same distance are the same number.
AlphaSame(alpha1, alpha2) ==
    LET l == alpha1.a * alpha2.c - alpha2.a * alpha1.c
        r == alpha1.b * alpha2.c - alpha2.b * alpha1.c
    IN  IF alpha1.a = NaN \/ alpha2.a = NaN THEN FALSE
        ELSE IF r = 0 THEN l = 0
        ELSE l * r >= 0 /\ l * l = r * r * alpha1.d2

\* The squared distance of two particles.
DistanceSquared(p, q) ==
    Plus(Times(Minus(p.x, q.x), Minus(p.x, q.x)),
         Times(Minus(p.y, q.y), Minus(p.y, q.y)))

\* C31: in a render pass, every pair of a particle and one of its
\* neighbours that lies within the density-scaled (and, in LOD mode,
\* reduced) max distance is emitted, with the alpha the distance-to-alpha
\* mapping gives when its max distance is that same scaled distance.  The
\* pairs asked for are those the cap leaves room for and whose alpha in the
\* scaled range is above the visibility floor; scaled distances that are
\* whole lattice units are covered.
ScaledRangeAlpha ==
    (lastCall.op = "render" /\ opts.enableConnections) =>
       \A i \in 1..Len(particles) :
          LET id == particles[i]
              nearbyParticles == getNearbyParticles(opts, Store, id)
              c == maxConnectionDistance(opts, Len(particles), lodMode)
              scaled == [opts EXCEPT !.maxConnectionDistance = c.num]
              lines == lastCall.drawn.connectionLines
          IN  (c.den = 1
               /\ Len(nearbyParticles) <= opts.maxConnectionsPerParticle) =>
                 \A j \in 1..Len(nearbyParticles) :
                    LET other == nearbyParticles[j]
                        d2 == DistanceSquared(heap[id], heap[other])
                        alpha == calculateConnectionAlpha(scaled, d2)
                    IN  (other # id /\ IsFinite(d2)
                         /\ ~BeyondCutoff(opts, Len(particles), lodMode, d2)
                         /\ AlphaGt(alpha, 1)) =>
                           \E k \in 1..Len(lines) :
                              /\ lines[k].from = id
                              /\ lines[k].to = other
                              /\ AlphaSame(lines[k].alpha, alpha)

\* ------------------------------------------------------- connection cap claim
\* The neighbours of the particle id the neighbour loop accepts when nothing
\* caps it, in the order of the neighbour query.
QualifyingNeighbours(o, s, lod, id) ==
    LET Accepted(other) ==
            /\ other # id
            /\ Qualifies(o, Len(s.particles), lod, s.heap[id], s.heap[other])
    IN  SelectSeq(getNearbyParticles(o, s, id), Accepted)

\* The second endpoints of the segments of lines whose first endpoint is
\* the particle id, in the order they were emitted.
EndpointsFrom(lines, id) ==
    LET FromId(line) == line.from = id
        own == SelectSeq(lines, FromId)
    IN  [k \in 1..Len(own) |-> own[k].to]

\* C32: in a render pass, the segments whose first endpoint is a particle p
\* are at most maxConnectionsPerParticle, they join p to the first
\* qualifying neighbours in the order of the neighbour query, and none
\* joins p to itself.
PerParticleCap ==
    (lastCall.op = "render" /\ opts.enableConnections) =>
       \A i \in 1..Len(particles) :
          LET id == particles[i]
              emitted == EndpointsFrom(lastCall.drawn.connectionLines, id)
              qualifying == QualifyingNeighbours(opts, Store, lodMode, id)
              cap == Max(0, opts.maxConnectionsPerParticle)
          IN  /\ Len(emitted) <= cap
              /\ emitted = SubSeq(qualifying, 1, Min(cap, Len(qualifying)))
              /\ \A k \in 1..Len(emitted) : emitted[k] # id

\* Witness of C32: a render pass in which a particle had more qualifying
\* neighbours than the cap allows.
CapReached ==
    /\ lastCall.op = "render"
    /\ opts.enableConnections
    /\ \E i \in 1..Len(particles) :
          /\ opts.maxConnectionsPerParticle >= 1
          /\ Len(QualifyingNeighbours(opts, Store, lodMode, particles[i]))
                > opts.maxConnectionsPerParticle

\* --------------------------------------------------- boundary exactness claim
\* Which boundary of one axis a step reflects a coordinate at when it
\* advances it from cur by the velocity used: "low", "high" or "none".
ReflectedAt(cur, used, extent) ==
    LET advanced == Plus(cur, used) IN
    IF Ge(advanced, extent) THEN "high"
    ELSE IF Le(advanced, 0) THEN "low"
    ELSE "none"

\* What C33 asks of one axis of the step that takes a particle from p to q
\* and of the step that follows it, taking it from q to r.  cur, past, v, f
\* are the coordinate, its past value, the tracked velocity and the force
\* before the first step, and the same with 1 and 2 after the first and the
\* second step; used and used1 are the velocities the two steps advance by.
AxisExact(cur, past, f, used, cur1, past1, used1, extent) ==
    LET implied == Minus(cur, past)
        inward == \/ cur = 0 /\ Gt(implied, 0)
                  \/ cur = extent /\ Lt(implied, 0)
        advanced == Plus(cur, implied)
    IN  /\ (inward /\ f = 0 /\ Gt(advanced, 0) /\ Lt(advanced, extent)) =>
              /\ cur1 = advanced
              /\ Minus(cur1, past1) = implied
        /\ (IsFinite(used) /\ used # 0 /\ IsFinite(used1) /\ used1 # 0
            /\ ReflectedAt(cur, used, extent) # "none") =>
              ReflectedAt(cur1, used1, extent) # ReflectedAt(cur, used, extent)

\* Whether the two physics steps that start from the store s are exact at
\* the boundaries on both axes of every particle.
StepsExact(o, w, h, s, m, lod) ==
    LET s1 == update(o, w, h, s, m, lod, effectiveTimestep(o)) IN
    \A i \in 1..Len(s.particles) :
       LET p == s.heap[s.particles[i]]
           q == s1.heap[s.particles[i]]
       IN  /\ AxisExact(p.x, p.pastX, p.fx,
                        UsedVelocity(o, lod, i, p.x, p.pastX, p.vx, p.fx,
                                     o.gravity.x),
                        q.x, q.pastX,
                        UsedVelocity(o, lod, i, q.x, q.pastX, q.vx, q.fx,
                                     o.gravity.x), w)
           /\ AxisExact(p.y, p.pastY, p.fy,
                        UsedVelocity(o, lod, i, p.y, p.pastY, p.vy, p.fy,
                                     o.gravity.y),
                        q.y, q.pastY,
                        UsedVelocity(o, lod, i, q.y, q.pastY, q.vy, q.fy,
                                     o.gravity.y), h)

\* C33: boundary exactness.  In every state, the next physics step moves a
\* particle that is exactly on a boundary with inward velocity to the inside
\* with its implied velocity unchanged, and no particle with non-zero
\* velocity is reflected at the same boundary by that step and by the one
\* after it.
BoundaryExactness ==
    effectiveTimestep(opts) # PosInf =>
       StepsExact(opts, width, height, Store, mouse, lodMode)

\* ------------------------------------------------------------ key packing claim
\* The cell of a position: its column and its row.
CellOf(o, x, y) == <<FloorDiv(x, o.gridSize), FloorDiv(y, o.gridSize)>>

\* Whether, for the live particles p and q on the canvas, the keys
\* getGridKey packs tell their cells apart, and the cell coordinates
\* getNearbyParticles decodes from the key of p are those of its cell, so
\* that the nine keys it probes are the keys of the cells around it.
KeysTellCells(o, p, q) ==
    LET key == getGridKey(o, p.x, p.y)
        gridY == JsMod(key, KeyBase)
        gridX == ExactDiv(Minus(key, gridY), KeyBase)
        cell == CellOf(o, p.x, p.y)
    IN  /\ CellOf(o, p.x, p.y) # CellOf(o, q.x, q.y) =>
              key # getGridKey(o, q.x, q.y)
        /\ ~Falsy(key) =>
              /\ <<gridX, gridY>> = cell
              /\ \A i \in 1..9 :
                    surroundingKeys(gridX, gridY)[i]
                      = Plus(Times(cell[1] + ((i - 1) \div 3) - 1, KeyBase),
                             cell[2] + ((i - 1) % 3) - 1)

\* The live particles that lie on the canvas.
OnCanvas == {id \in {particles[i] : i \in 1..Len(particles)} :
               InBounds(heap[id])}

\* C34 as stated: the packing is collision-free and decodable for every
\* surface extent and every positive gridSize.
KeyPackingCollisionFree ==
    (opts.enableSpatialPartitioning /\ opts.gridSize > 0) =>
       \A id1 \in OnCanvas, id2 \in OnCanvas :
          KeysTellCells(opts, heap[id1], heap[id2])

\* C34: the packing is collision-free and decodable for every positive
\* gridSize and every surface extent of fewer than KeyBase rows of cells.
KeyPackingCollisionFreeBelowBase ==
    (opts.enableSpatialPartitioning /\ opts.gridSize > 0
     /\ Lt(FloorDiv(height, opts.gridSize), KeyBase)) =>
       \A id1 \in OnCanvas, id2 \in OnCanvas :
          KeysTellCells(opts, heap[id1], heap[id2])

\* Witness of C34: two live particles in different cells of a canvas of
\* KeyBase - 1 units, one of them in the last row below KeyBase.
PackedNearBase ==
    /\ opts.enableSpatialPartitioning
    /\ Lt(FloorDiv(height, opts.gridSize), KeyBase)
    /\ \E id1 \in OnCanvas, id2 \in OnCanvas :
          /\ CellOf(opts, heap[id1].x, heap[id1].y)[2] = KeyBase - 1
          /\ CellOf(opts, heap[id2].x, heap[id2].y)
                = <<CellOf(opts, heap[id1].x, heap[id1].y)[1] + 1, 0>>

\* ------------------------------------------------------- live endpoints claim
\* C35: every segment a render pass emits joins two particles of the live
\* list: the neighbour query returns no particle that was removed.
SegmentsJoinLiveParticles ==
    lastCall.op = "render" =>
       \A k \in 1..Len(lastCall.drawn.connectionLines) :
          LET line == lastCall.drawn.connectionLines[k]
              live == {particles[i] : i \in 1..Len(particles)}
          IN  line.from \in live /\ line.to \in live

\* ------------------------------------------------------- disjointness claim
\* Whether no object appears twice in the sequence.
NoDuplicates(seq) ==
    \A i \in 1..Len(seq), j \in 1..Len(seq) : seq[i] = seq[j] => i = j

\* C36: after any sequence of addParticle, removeParticle and
\* setParticleCount no particle object is both in the live list and in the
\* pool, and none appears twice in the live list or twice in the pool.
StorePoolDisjoint ==
    /\ \A i \in 1..Len(particles), j \in 1..Len(particlePool) :
          particles[i] # particlePool[j]
    /\ NoDuplicates(particles)
    /\ NoDuplicates(particlePool)

\* Witness of C36: a setParticleCount grew the live list out of the pool
\* and left an object in the pool.
GrewOutOfPool ==
    /\ lastCall.op = "setParticleCount"
    /\ Len(particles) > lastCall.n0
    /\ Len(particlePool) < lastCall.p0
    /\ Len(particlePool) >= 1

\* ------------------------------------------------------ pending frame claim
\* C37: at most one frame callback is pending at any time, and while the
\* loop is running exactly one is, the one animationId names, whatever the
\* order of start, stop, visibility changes and frame deliveries.
OneFramePending ==
    /\ Cardinality(rafQueue) <= 1
    /\ running => rafQueue = {animationId}

\* Witness of C37: the loop was started again after a frame had been
\* delivered and the loop stopped, and one callback is pending.
RestartedBetweenFrames ==
    /\ lastCall.op = "start"
    /\ ~lastCall.ran
    /\ running
    /\ frames >= 1
    /\ Cardinality(rafQueue) = 1

\* ------------------------------------------------------- force lifetime claim
\* C38: an external force acts for at most one physics step.  When a step
\* ends, the force accumulators of every live particle have been recomputed
\* from the pointer as it is now, or cleared: with mouse repel disabled no
\* force computed earlier is left to act on the following step.
ForceActsOneStep ==
    [][lastCall'.op = "update" =>
         \A i \in 1..Len(particles') :
            LET p == heap'[particles'[i]]
                f == IF opts.enableMouseRepel
                     THEN RepelForce(opts, Minus(p.x, mouse.x),
                                     Minus(p.y, mouse.y))
                     ELSE [x |-> 0, y |-> 0]
            IN  p.fx = f.x /\ p.fy = f.y]_vars

\* C39: the drain loop of a frame callback terminates for every elapsed
\* time and every speed, positive, zero or negative: each pass through the
\* loop lowers the accumulator and leaves it at zero or more, so that only
\* finitely many passes fit into the time that has elapsed.
DrainTerminates ==
    [][(InDrain /\ InDrain') =>
          (accumulator' < accumulator /\ accumulator' >= 0)]_vars

\* C40: an explicit stop() is not overridden by the visibility handler: the
\* visibility event that follows a stop(), whether the page was hidden or
\* visible when stop() was called, leaves the engine stopped.
StopOutlastsVisibility ==
    [][(lastCall.op = "stop" /\ lastCall'.op = "visibilitychange") =>
          ~running']_vars

=============================================================================
